---- MODULE Spec2Model ----
(***************************************************************************)
(* A model of geeparse: the persistent graph store (pkg/persistence), the  *)
(* resolver session (pkg/lspclient) and the call-graph build pipeline      *)
(* (pkg/callgraph).                                                        *)
(*                                                                         *)
(* Three specifications share the module:                                  *)
(*   SpecStore    SaveGraph / LoadGraph on one store, statement by         *)
(*                statement, with a failure possible at every statement;   *)
(*   SpecSession  lspclient.New and Client.Close called by any caller;     *)
(*   SpecBuild    callgraph.BuildCallGraph over a bounded corpus with a    *)
(*                resolver that may answer anything.                       *)
(***************************************************************************)
EXTENDS Naturals, Integers, Sequences, FiniteSets, TLC

\* ------------------------------------------------------------------------
\* Bounds of the model
\* ------------------------------------------------------------------------

\* Longest callee list of a graph handed to SaveGraph.
MaxCallees == 2

\* Calls of Client.Close, and requests, a caller of the session makes.
MaxCloses == 3
MaxQueries == 3

\* Files of a corpus, function declarations of a corpus, items one
\* prepareCallHierarchy answer holds, calls one outgoingCalls answer holds.
MaxFiles == 2
MaxDecls == 3
MaxItems == 2
MaxOut == 2

\* Declarations with a body the lexical extractor walks, and call
\* expressions in one body.
MaxLexDecls == 3
MaxCallSites == 3

\* Rows of calls in a graph.db that LoadGraph finds as it is.
MaxEdgeRows == 3

\* Function names of the corpus, and the texts a declaration can render to.
Names == {"A", "B"}

\* What the resolver can name as a callee: the corpus' names and one name
\* declared nowhere in it. The handles it can return for a position.
Callables == Names \cup {"X"}

Entities == {"e1", "e2"}

NodeTexts == {[Signature |-> "s1", Definition |-> "d1"],
              [Signature |-> "s2", Definition |-> "d2"]}

\* ------------------------------------------------------------------------
\* Helpers on sequences
\* ------------------------------------------------------------------------

SeqsUpTo(S, n) == UNION {[1..k -> S] : k \in 0..n}

Range(s) == {s[i] : i \in 1..Len(s)}

NoDup(s) == \A i, j \in 1..Len(s) : s[i] = s[j] => i = j

Count(s, x) == Cardinality({i \in 1..Len(s) : s[i] = x})

\* s and t hold the same elements the same number of times.
SameUpToOrder(s, t) ==
    /\ Len(s) = Len(t)
    /\ \A x \in Range(s) \cup Range(t) : Count(s, x) = Count(t, x)

\* Every duplicate-free listing of the finite set S.
Orderings(S) == {s \in [1..Cardinality(S) -> S] : Range(s) = S}

\* ------------------------------------------------------------------------
\* callgraph.FunctionNode and the graphs handed to the store
\* ------------------------------------------------------------------------

FunctionNode(callees, sig, def) ==
    [Callees |-> callees, Signature |-> sig, Definition |-> def]

FunctionNodes ==
    {FunctionNode(cs, t.Signature, t.Definition) :
        cs \in SeqsUpTo(Names, MaxCallees), t \in NodeTexts}

\* map[string]FunctionNode: any key set, any node under each key.
Graphs == UNION {[K -> FunctionNodes] : K \in SUBSET Names}

EmptyGraph == [n \in {} |-> FunctionNode(<<>>, "", "")]

\* Every callee of every node is a key.
ClosedWorld(G) == \A n \in DOMAIN G : Range(G[n].Callees) \subseteq DOMAIN G

\* The distinct (caller, callee) pairs of a graph.
EdgePairs(G) == UNION {{<<n, c>> : c \in Range(G[n].Callees)} : n \in DOMAIN G}

VARIABLES
    \* persistence.Store: the committed content of the two tables
    functions,      \* name -> [Signature, Definition]   (name PRIMARY KEY)
    calls,          \* set of <<caller, callee>>         (PRIMARY KEY (caller, callee))
    \* the open transaction of SaveGraph
    savePc,         \* the statement SaveGraph executes next
    saveArg,        \* the graph argument of the running SaveGraph
    txFunctions,    \* the tables as the transaction sees them
    txCalls,
    pendingFn,      \* keys the first loop has not reached
    pendingCallers, \* keys the second loop has not reached
    saveResult,     \* what the last SaveGraph returned
    prevFunctions,  \* the committed tables when the last SaveGraph began
    prevCalls,
    \* LoadGraph
    loadResult,     \* "none" | "ok" | "err"
    loaded          \* the map LoadGraph returned

storeVars == <<functions, calls, savePc, saveArg, txFunctions, txCalls,
               pendingFn, pendingCallers, saveResult, prevFunctions,
               prevCalls, loadResult, loaded>>

VARIABLES
    \* lspclient.New
    newPc,          \* "unstarted" | "handshake" | "returned"
    newResult,      \* "none" | "ok" | the step of New that failed
    initializeOk,   \* the initialize request was answered
    initializedOk,  \* the initialized notification was written
    \* what a session owns
    proc,           \* gopls: "none" | "running" | "exited" | "killed"
    pipes,          \* stdio: "none" | "open" | "closed"
    ctxState,       \* "none" | "active" | "cancelled"
    connState,      \* jsonrpc2.Conn: "none" | "open" | "closed"
    hasClient,      \* New returned a *Client
    connected,      \* Client.connected
    \* how often each teardown step ran, and the calls made on the Client
    kills,
    streamCloses,
    connCloses,
    cancels,
    closeCalls,
    queries,        \* requests issued through conn.Call after the handshake
    lastAnswer,     \* how the last of them returned
    hardFailAt      \* the value of queries at the first request that found
                    \* the transport closed, when written or while it
                    \* waited; 0 while none did

sessVars == <<newPc, newResult, initializeOk, initializedOk, proc, pipes,
              ctxState, connState, hasClient, connected, kills, streamCloses,
              connCloses, cancels, closeCalls, queries, lastAnswer,
              hardFailAt>>

VARIABLES
    \* callgraph.BuildCallGraph
    corpus,         \* the parsed files: [nFiles, decls], decls in walk order
    buildPc,        \* the step BuildCallGraph executes next
    names,          \* parseGoFiles' name set
    details,        \* extractDetails' map
    opened,         \* files handed to OpenDocument so far
    cursor,         \* index of the declaration extractGraphLSP is at
    root,           \* items[0] of the declaration at the cursor
    skipped,        \* the callees of the last OutgoingCalls answer that the
                    \* test of names passed over
    rawGraph,       \* extractGraphLSP's graph
    resolved,       \* per caller name, the known names the OutgoingCalls
                    \* answers of its declarations held
    out,            \* the map BuildCallGraph returned
    outNil,         \* the keys of out whose Callees is a nil slice
    buildResult     \* "none" | "ok" | the step that made it return an error

buildVars == <<corpus, buildPc, names, details, opened, cursor, root,
               skipped, rawGraph, resolved, out, outNil, buildResult>>

VARIABLES
    \* one request made through conn.Call, seen from the goroutine that made it
    inflight        \* the request is written and Call waits for its response

callVars == <<inflight>>

VARIABLES
    \* LoadGraph followed query by query, as it runs beside a SaveGraph
    rdPc,           \* "idle" | "edges": the first query is done, not the second
    rdNodes         \* the map the first loop of LoadGraph built

readerVars == <<rdPc, rdNodes>>

VARIABLES
    \* main
    mainPc,         \* "build" | "open" | "save" | "serving" | "fatal"
    mainGraph,      \* main's graph: the map BuildCallGraph returned to it
    served          \* the map main handed to server.StartServer

mainVars == <<mainPc, mainGraph, served>>

VARIABLES
    \* the lexical extractor: extractCallGraph and buildCallGraph
    funcNames,      \* the declared names parseGoFiles collected
    lexPc,          \* "walk" | "inspect" | "assembled"
    lexCaller,      \* fn.Name.Name of the declaration the loop is at
    calleeSet,      \* calleeSet of that declaration
    visited,        \* the distinct call targets ast.Inspect has met in its body
    nSites,         \* the call expressions ast.Inspect has met in its body
    nDecls,         \* the declarations with a body the loop has reached
    walked,         \* the names of those declarations
    totalSites,     \* the call expressions met in all their bodies
    lexGraph,       \* extractCallGraph's graph
    lexOut          \* the map buildCallGraph returned

lexVars == <<funcNames, lexPc, lexCaller, calleeSet, visited, nSites, nDecls,
             walked, totalSites, lexGraph, lexOut>>

VARIABLES
    \* extractGraphLSP followed request by request
    passPc,         \* "prepare" | "prepareWait" | "outgoing" | "outgoingWait"
                    \* | "returned"
    passDecls,      \* fn.Name.Name of the declarations with a body, in order
    passNames,      \* the names argument
    passCursor,     \* index of the declaration the loop is at
    passItems,      \* the last answer of PrepareCallHierarchy
    passRoot,       \* root, the item the OutgoingCalls request carries
    passGraph,      \* graph
    outstanding,    \* requests written whose conn.Call has not returned
    reqKind,        \* the last request written: "prepare" | "outgoing"
    outReqs         \* OutgoingCalls requests issued for the declaration

passVars == <<passPc, passDecls, passNames, passCursor, passItems, passRoot,
              passGraph, outstanding, reqKind, outReqs>>

vars == <<storeVars, sessVars, buildVars, callVars, readerVars, mainVars,
          lexVars, passVars>>

\* The session but for how the last request returned and for the record of
\* the first request that found the transport closed.
sessVarsButAnswer == <<newPc, newResult, initializeOk, initializedOk, proc,
                       pipes, ctxState, connState, hasClient, connected,
                       kills, streamCloses, connCloses, cancels, closeCalls,
                       queries>>

\* What a step of the store, of the session, of the build leaves alone.
notStoreVars == <<sessVars, buildVars, callVars, readerVars, mainVars, lexVars,
                  passVars>>

notSessVars == <<storeVars, buildVars, callVars, readerVars, mainVars, lexVars,
                 passVars>>

notBuildVars == <<storeVars, callVars, readerVars, mainVars, lexVars, passVars>>

\* ------------------------------------------------------------------------
\* persistence.Store
\* ------------------------------------------------------------------------

NoRows == [n \in {} |-> [Signature |-> "", Definition |-> ""]]

\* The steps at which SaveGraph can return an error.
SaveFailures ==
    {"begin", "delete calls", "delete functions", "prepare insert function",
     "prepare insert call", "insert function", "insert call", "commit"}

\* A Store on which neither SaveGraph nor LoadGraph has been called.
NoSave ==
    /\ savePc = "idle"
    /\ saveArg = EmptyGraph
    /\ txFunctions = NoRows
    /\ txCalls = {}
    /\ pendingFn = {}
    /\ pendingCallers = {}
    /\ saveResult = "none"
    /\ prevFunctions = NoRows
    /\ prevCalls = {}
    /\ loadResult = "none"
    /\ loaded = EmptyGraph

\* NewStore on a fresh file: both tables exist and are empty.
NewStore ==
    /\ functions = NoRows
    /\ calls = {}
    /\ savePc = "idle"
    /\ saveArg = EmptyGraph
    /\ txFunctions = NoRows
    /\ txCalls = {}
    /\ pendingFn = {}
    /\ pendingCallers = {}
    /\ saveResult = "none"
    /\ prevFunctions = NoRows
    /\ prevCalls = {}
    /\ loadResult = "none"
    /\ loaded = EmptyGraph

\* tx.Rollback() followed by "return err": the transaction's view is dropped,
\* the committed tables are not written. main ends the process on the error
\* (log.Fatal), so nothing of the call but its error outlives it.
RollbackAndReturn(stage) ==
    /\ savePc' = "idle"
    /\ saveResult' = stage
    /\ saveArg' = EmptyGraph
    /\ txFunctions' = NoRows
    /\ txCalls' = {}
    /\ pendingFn' = {}
    /\ pendingCallers' = {}
    /\ UNCHANGED <<functions, calls, prevFunctions, prevCalls,
                   loadResult, loaded>>

\* The statement that follows the two loops' bookkeeping: the first loop runs
\* while keys are pending, then the second, then Commit.
LoopPc(fnLeft, callersLeft) ==
    IF fnLeft # {} THEN "insertFn"
    ELSE IF callersLeft # {} THEN "insertCall"
    ELSE "commit"

\* SaveGraph called with one of the graphs Gs: tx, err := s.db.Begin()
SaveBeginOf(Gs) ==
    /\ savePc = "idle"
    /\ saveResult = "none"
    /\ prevFunctions' = functions
    /\ prevCalls' = calls
    /\ \/ \E G \in Gs :
            /\ saveArg' = G
            /\ savePc' = "deleteCalls"
            /\ saveResult' = "running"
            /\ txFunctions' = functions
            /\ txCalls' = calls
       \/ /\ savePc' = "idle"
          /\ saveResult' = "begin"
          /\ UNCHANGED <<saveArg, txFunctions, txCalls>>
    /\ UNCHANGED <<functions, calls, pendingFn, pendingCallers, loadResult,
                   loaded>>

\* SaveGraph called with any graph.
SaveBegin == SaveBeginOf(Graphs)

\* DeleteCalls with the statement run on s.db instead of tx: it commits by
\* itself.
DeleteCallsOnDb ==
    /\ savePc = "deleteCalls"
    /\ \/ /\ txCalls' = {}
          /\ calls' = {}
          /\ savePc' = "deleteFunctions"
          /\ UNCHANGED <<functions, saveArg, txFunctions, pendingFn,
                         pendingCallers, saveResult, prevFunctions, prevCalls,
                         loadResult, loaded>>
       \/ RollbackAndReturn("delete calls")

\* tx.Exec(`DELETE FROM calls`)
DeleteCalls ==
    /\ savePc = "deleteCalls"
    /\ \/ /\ txCalls' = {}
          /\ savePc' = "deleteFunctions"
          /\ UNCHANGED <<functions, calls, saveArg, txFunctions, pendingFn,
                         pendingCallers, saveResult, prevFunctions, prevCalls,
                         loadResult, loaded>>
       \/ RollbackAndReturn("delete calls")

\* The rows of calls that ON DELETE CASCADE leaves once only the functions
\* in keep exist.
Cascade(rows, keep) == {r \in rows : r[1] \in keep /\ r[2] \in keep}

\* DeleteFunctions with the statement left out.
DeleteFunctionsSkipped ==
    /\ savePc = "deleteFunctions"
    /\ \/ /\ savePc' = "prepareFn"
          /\ UNCHANGED <<functions, calls, saveArg, txFunctions, txCalls,
                         pendingFn, pendingCallers, saveResult, prevFunctions,
                         prevCalls, loadResult, loaded>>
       \/ RollbackAndReturn("delete functions")

\* tx.Exec(`DELETE FROM functions`)
DeleteFunctions ==
    /\ savePc = "deleteFunctions"
    /\ \/ /\ txFunctions' = NoRows
          /\ txCalls' = Cascade(txCalls, {})
          /\ savePc' = "prepareFn"
          /\ UNCHANGED <<functions, calls, saveArg, pendingFn, pendingCallers,
                         saveResult, prevFunctions, prevCalls, loadResult,
                         loaded>>
       \/ RollbackAndReturn("delete functions")

\* insertFn, err := tx.Prepare(`INSERT INTO functions ...`)
PrepareInsertFn ==
    /\ savePc = "prepareFn"
    /\ \/ /\ savePc' = "prepareCall"
          /\ UNCHANGED <<functions, calls, saveArg, txFunctions, txCalls,
                         pendingFn, pendingCallers, saveResult, prevFunctions,
                         prevCalls, loadResult, loaded>>
       \/ RollbackAndReturn("prepare insert function")

\* insertCall, err := tx.Prepare(`INSERT OR IGNORE INTO calls ...`)
PrepareInsertCall ==
    /\ savePc = "prepareCall"
    /\ \/ /\ pendingFn' = DOMAIN saveArg
          /\ pendingCallers' = DOMAIN saveArg
          /\ savePc' = LoopPc(DOMAIN saveArg, DOMAIN saveArg)
          /\ UNCHANGED <<functions, calls, saveArg, txFunctions, txCalls,
                         saveResult, prevFunctions, prevCalls, loadResult,
                         loaded>>
       \/ RollbackAndReturn("prepare insert call")

\* The functions table after INSERT INTO functions(name, signature,
\* definition) VALUES(name, sig, def).
WithFunctionRow(rows, name, sig, def) ==
    [n \in DOMAIN rows \cup {name} |->
        IF n = name THEN [Signature |-> sig, Definition |-> def] ELSE rows[n]]

\* One iteration of "for name, node := range graph": the map's order is any.
\* A second row under one name breaks the PRIMARY KEY.
InsertFunction ==
    /\ savePc = "insertFn"
    /\ \E name \in pendingFn :
         \/ /\ name \notin DOMAIN txFunctions
            /\ txFunctions' = WithFunctionRow(txFunctions, name,
                                   saveArg[name].Signature,
                                   saveArg[name].Definition)
            /\ pendingFn' = pendingFn \ {name}
            /\ savePc' = LoopPc(pendingFn \ {name}, pendingCallers)
            /\ UNCHANGED <<functions, calls, saveArg, txCalls, pendingCallers,
                           saveResult, prevFunctions, prevCalls, loadResult,
                           loaded>>
         \/ RollbackAndReturn("insert function")

\* ForeignKeysHold on a connection that never ran PRAGMA foreign_keys = ON.
ForeignKeysOff(rows, caller, callee) == TRUE

\* INSERT OR IGNORE INTO calls(caller, callee): with foreign_keys = ON both
\* ends must be rows of functions; a pair already present is ignored.
ForeignKeysHold(rows, caller, callee) ==
    caller \in DOMAIN rows /\ callee \in DOMAIN rows

RECURSIVE InsertCallsPlain(_, _, _, _)
\* InsertCalls with INSERT INTO in place of INSERT OR IGNORE INTO: a pair
\* already present breaks the PRIMARY KEY and the insert fails.
InsertCallsPlain(rows, edges, caller, cs) ==
    IF cs = <<>> THEN [ok |-> TRUE, calls |-> edges]
    ELSE IF \/ ~ForeignKeysHold(rows, caller, Head(cs))
            \/ <<caller, Head(cs)>> \in edges
         THEN [ok |-> FALSE, calls |-> edges]
         ELSE InsertCallsPlain(rows, edges \cup {<<caller, Head(cs)>>}, caller,
                               Tail(cs))

RECURSIVE InsertCalls(_, _, _, _)
\* The inner loop "for _, callee := range node.Callees" from index i on:
\* the calls table it leaves, or "error" at the first insert that fails.
InsertCalls(rows, edges, caller, cs) ==
    IF cs = <<>> THEN [ok |-> TRUE, calls |-> edges]
    ELSE IF ~ForeignKeysHold(rows, caller, Head(cs))
         THEN [ok |-> FALSE, calls |-> edges]
         ELSE InsertCalls(rows, edges \cup {<<caller, Head(cs)>>}, caller, Tail(cs))

\* One iteration of "for caller, node := range graph" of the second loop.
InsertCallsOfCaller ==
    /\ savePc = "insertCall"
    /\ \E caller \in pendingCallers :
         LET r == InsertCalls(txFunctions, txCalls, caller, saveArg[caller].Callees)
         IN \/ /\ r.ok
               /\ txCalls' = r.calls
               /\ pendingCallers' = pendingCallers \ {caller}
               /\ savePc' = LoopPc(pendingFn, pendingCallers \ {caller})
               /\ UNCHANGED <<functions, calls, saveArg, txFunctions, pendingFn,
                              saveResult, prevFunctions, prevCalls, loadResult,
                              loaded>>
            \/ RollbackAndReturn("insert call")

\* return tx.Commit(): the transaction's view becomes the committed tables,
\* or the commit fails and the engine drops the transaction.
Commit ==
    /\ savePc = "commit"
    /\ \/ /\ functions' = txFunctions
          /\ calls' = txCalls
          /\ savePc' = "idle"
          /\ saveResult' = "ok"
          /\ txFunctions' = NoRows
          /\ txCalls' = {}
          /\ UNCHANGED <<saveArg, pendingFn, pendingCallers, prevFunctions,
                         prevCalls, loadResult, loaded>>
       \/ RollbackAndReturn("commit")

RECURSIVE AppendEdgesInventing(_, _)
\* AppendEdges without the test "if node, ok := graph[caller]; ok": a row
\* whose caller is no key makes a node of its own.
AppendEdgesInventing(graph, rows) ==
    IF rows = <<>> THEN graph
    ELSE LET caller == Head(rows)[1]
             callee == Head(rows)[2]
         IN AppendEdgesInventing(
                [n \in DOMAIN graph \cup {caller} |->
                    IF n \in DOMAIN graph
                    THEN (IF n = caller
                          THEN [graph[n] EXCEPT !.Callees = Append(@, callee)]
                          ELSE graph[n])
                    ELSE FunctionNode(<<callee>>, "", "")],
                Tail(rows))

RECURSIVE AppendEdges(_, _)
\* The second loop of LoadGraph over the edge rows in the order the query
\* yields them: a row whose caller is no key of graph is skipped.
AppendEdges(graph, rows) ==
    IF rows = <<>> THEN graph
    ELSE LET caller == Head(rows)[1]
             callee == Head(rows)[2]
         IN AppendEdges(
                IF caller \in DOMAIN graph
                THEN [graph EXCEPT ![caller].Callees = Append(@, callee)]
                ELSE graph,
                Tail(rows))

\* NodesOfRows with rows.Scan's last two targets swapped.
NodesOfRowsSwapped(rows) ==
    [n \in DOMAIN rows |->
        FunctionNode(<<>>, rows[n].Definition, rows[n].Signature)]

\* The first loop of LoadGraph: one node per functions row, no callees yet.
NodesOfRows(rows) ==
    [n \in DOMAIN rows |->
        FunctionNode(<<>>, rows[n].Signature, rows[n].Definition)]

\* LoadGraph as main calls it, after SaveGraph returned nil: either query
\* may fail; the edge rows come in whatever order the engine scans them.
LoadGraph ==
    /\ savePc = "idle"
    /\ saveResult = "ok"
    /\ loadResult = "none"
    /\ \/ \E rows \in Orderings(calls) :
            /\ loaded' = AppendEdges(NodesOfRows(functions), rows)
            /\ loadResult' = "ok"
       \/ /\ loaded' = EmptyGraph
          /\ loadResult' = "err"
    /\ UNCHANGED <<functions, calls, savePc, saveArg, txFunctions, txCalls,
                   pendingFn, pendingCallers, saveResult, prevFunctions,
                   prevCalls>>

\* The process ends (after LoadGraph, or on log.Fatal) and main runs again:
\* NewStore opens the same file, CREATE TABLE IF NOT EXISTS keeps its rows.
Restart ==
    /\ savePc = "idle"
    /\ saveResult \notin {"none", "running"}
    /\ saveArg' = EmptyGraph
    /\ saveResult' = "none"
    /\ prevFunctions' = NoRows
    /\ prevCalls' = {}
    /\ loadResult' = "none"
    /\ loaded' = EmptyGraph
    /\ UNCHANGED <<functions, calls, savePc, txFunctions, txCalls, pendingFn,
                   pendingCallers>>

\* No LoadGraph is between its two queries.
NoReader ==
    /\ rdPc = "idle"
    /\ rdNodes = EmptyGraph

\* LoadGraph called while another goroutine or process may be in SaveGraph
\* on the same file. Its first statement, s.db.Query on functions outside
\* any transaction, and the first loop: the query reads the committed rows
\* (what an open transaction of the writer has done is not visible to it),
\* or fails, as when the writer holds the file's lock.
ReadFunctions ==
    /\ rdPc = "idle"
    /\ loadResult = "none"
    /\ \/ /\ rdNodes' = NodesOfRows(functions)
          /\ rdPc' = "edges"
          /\ UNCHANGED <<loadResult, loaded>>
       \/ /\ loadResult' = "err"
          /\ loaded' = EmptyGraph
          /\ UNCHANGED <<rdPc, rdNodes>>
    /\ UNCHANGED <<functions, calls, savePc, saveArg, txFunctions, txCalls,
                   pendingFn, pendingCallers, saveResult, prevFunctions,
                   prevCalls>>

\* The second statement, s.db.Query on calls, a statement of its own, and
\* the second loop over the rows committed when it runs.
ReadCalls ==
    /\ rdPc = "edges"
    /\ \/ \E rows \in Orderings(calls) :
            /\ loaded' = AppendEdges(rdNodes, rows)
            /\ loadResult' = "ok"
       \/ /\ loaded' = EmptyGraph
          /\ loadResult' = "err"
    /\ rdPc' = "idle"
    /\ rdNodes' = EmptyGraph
    /\ UNCHANGED <<functions, calls, savePc, saveArg, txFunctions, txCalls,
                   pendingFn, pendingCallers, saveResult, prevFunctions,
                   prevCalls>>

\* What the reader's steps leave alone.
notReaderVars == <<sessVars, buildVars, callVars, mainVars, lexVars, passVars>>

\* ------------------------------------------------------------------------
\* lspclient.Client
\* ------------------------------------------------------------------------

NoSession ==
    /\ newPc = "unstarted"
    /\ newResult = "none"
    /\ initializeOk = FALSE
    /\ initializedOk = FALSE
    /\ proc = "none"
    /\ pipes = "none"
    /\ ctxState = "none"
    /\ connState = "none"
    /\ hasClient = FALSE
    /\ connected = FALSE
    /\ kills = 0
    /\ streamCloses = 0
    /\ connCloses = 0
    /\ cancels = 0
    /\ closeCalls = 0
    /\ queries = 0
    /\ lastAnswer = "none"
    /\ hardFailAt = 0

\* cmd.Process.Kill(): a process that already exited stays exited.
Killed(p) == IF p = "running" THEN "killed" ELSE p

\* New up to the point where it blocks in initialize's conn.Call:
\* filepath.Abs, context.WithCancel, startGopls, newConn, and the initialize
\* request written. A failure of startGopls releases the context.
NewStart ==
    /\ newPc = "unstarted"
    /\ \/ /\ newPc' = "returned"
          /\ newResult' = "resolve root dir"
          /\ UNCHANGED <<proc, pipes, ctxState, connState, cancels>>
       \/ /\ newPc' = "returned"
          /\ newResult' = "start gopls"
          /\ ctxState' = "cancelled"
          /\ cancels' = cancels + 1
          /\ UNCHANGED <<proc, pipes, connState>>
       \/ /\ newPc' = "handshake"
          /\ ctxState' = "active"
          /\ proc' = "running"
          /\ pipes' = "open"
          /\ connState' = "open"
          /\ UNCHANGED <<newResult, cancels>>
    /\ UNCHANGED <<initializeOk, initializedOk, hasClient, connected, kills,
                   streamCloses, connCloses, closeCalls, queries, lastAnswer,
                   hardFailAt>>

\* The subprocess ends by itself, or its pipe breaks.
ProcessExits ==
    /\ proc = "running"
    /\ proc' = "exited"
    /\ UNCHANGED <<newPc, newResult, initializeOk, initializedOk, pipes,
                   ctxState, connState, hasClient, connected, kills,
                   streamCloses, connCloses, cancels, closeCalls, queries,
                   lastAnswer, hardFailAt>>

\* The transport carries a request and its response.
TransportUp ==
    /\ proc = "running"
    /\ pipes = "open"
    /\ connState = "open"
    /\ ctxState = "active"

\* HandshakeCleanup with the Kill left out.
HandshakeCleanupNoKill ==
    /\ pipes' = "closed"
    /\ streamCloses' = streamCloses + 1
    /\ ctxState' = "cancelled"
    /\ cancels' = cancels + 1
    /\ UNCHANGED <<proc, kills>>

\* New when initialize returned an error: stream.Close, Process.Kill, cancel.
HandshakeCleanup ==
    /\ pipes' = "closed"
    /\ streamCloses' = streamCloses + 1
    /\ proc' = Killed(proc)
    /\ kills' = kills + 1
    /\ ctxState' = "cancelled"
    /\ cancels' = cancels + 1

\* NewInitializeReturns with initialize returning after its conn.Call,
\* the initialized notification never written.
NewInitializeReturnsUnnotified ==
    /\ newPc = "handshake"
    /\ newPc' = "returned"
    /\ \/ /\ newResult' = "initialize"
          /\ HandshakeCleanup
          /\ UNCHANGED <<initializeOk, initializedOk, hasClient, connected>>
       \/ /\ TransportUp
          /\ initializeOk' = TRUE
          /\ newResult' = "ok"
          /\ hasClient' = TRUE
          /\ connected' = TRUE
          /\ UNCHANGED <<initializedOk, proc, pipes, ctxState, kills,
                         streamCloses, cancels>>
    /\ UNCHANGED <<connState, connCloses, closeCalls, queries, lastAnswer,
                   hardFailAt>>

\* initialize's conn.Call returns and New runs to its end: the call failed;
\* or it succeeded and the initialized notification failed; or both
\* succeeded and New returns the Client.
NewInitializeReturns ==
    /\ newPc = "handshake"
    /\ newPc' = "returned"
    /\ \/ /\ newResult' = "initialize"
          /\ HandshakeCleanup
          /\ UNCHANGED <<initializeOk, initializedOk, hasClient, connected>>
       \/ /\ TransportUp
          /\ initializeOk' = TRUE
          /\ \/ /\ newResult' = "initialized"
                /\ HandshakeCleanup
                /\ UNCHANGED <<initializedOk, hasClient, connected>>
             \/ /\ newResult' = "ok"
                /\ initializedOk' = TRUE
                /\ hasClient' = TRUE
                /\ connected' = TRUE
                /\ UNCHANGED <<proc, pipes, ctxState, kills, streamCloses,
                               cancels>>
    /\ UNCHANGED <<connState, connCloses, closeCalls, queries, lastAnswer,
                   hardFailAt>>

\* CloseBody without the test of c.connected.
CloseBodyUnguarded ==
    /\ connected' = FALSE
    /\ connState' = "closed"
    /\ connCloses' = connCloses + 1
    /\ pipes' = "closed"
    /\ streamCloses' = streamCloses + 1
    /\ proc' = Killed(proc)
    /\ kills' = kills + 1
    /\ ctxState' = "cancelled"
    /\ cancels' = cancels + 1

\* CloseBody that clears the flag and releases nothing.
CloseBodyFlagOnly ==
    /\ connected' = FALSE
    /\ UNCHANGED <<connState, connCloses, pipes, streamCloses, proc, kills,
                   ctxState, cancels>>

\* CloseBody without the call of c.cancel.
CloseBodyNoCancel ==
    IF ~connected
    THEN UNCHANGED <<connected, connState, connCloses, pipes, streamCloses,
                     proc, kills, ctxState, cancels>>
    ELSE /\ connected' = FALSE
         /\ connState' = "closed"
         /\ connCloses' = connCloses + 1
         /\ pipes' = "closed"
         /\ streamCloses' = streamCloses + 1
         /\ proc' = Killed(proc)
         /\ kills' = kills + 1
         /\ UNCHANGED <<ctxState, cancels>>

\* The body of Client.Close.
CloseBody ==
    IF ~connected
    THEN UNCHANGED <<connected, connState, connCloses, pipes, streamCloses,
                     proc, kills, ctxState, cancels>>
    ELSE /\ connected' = FALSE
         /\ connState' = "closed"
         /\ connCloses' = connCloses + 1
         /\ pipes' = "closed"
         /\ streamCloses' = streamCloses + 1
         /\ proc' = Killed(proc)
         /\ kills' = kills + 1
         /\ ctxState' = "cancelled"
         /\ cancels' = cancels + 1

\* A caller holding the Client calls Close.
Close ==
    /\ hasClient
    /\ closeCalls < MaxCloses
    /\ closeCalls' = closeCalls + 1
    /\ CloseBody
    /\ UNCHANGED <<newPc, newResult, initializeOk, initializedOk, hasClient,
                   queries, lastAnswer, hardFailAt>>

\* How conn.Call can return: over a transport that is up, with a result or
\* with an error; over one that is not, with an error.
CallOutcomes == IF TransportUp THEN {"result", "error"} ELSE {"error"}

\* The bookkeeping of one request issued through conn.Call.
IssueQuery ==
    /\ queries' = queries + 1
    /\ hardFailAt' = IF ~TransportUp /\ hardFailAt = 0
                      THEN queries + 1 ELSE hardFailAt

\* A caller holding the Client issues PrepareCallHierarchy, OutgoingCalls,
\* IncomingCalls or FetchSymbols: each is one conn.Call.
SessionQuery ==
    /\ hasClient
    /\ queries < MaxQueries
    /\ IssueQuery
    /\ \E o \in CallOutcomes : lastAnswer' = o
    /\ UNCHANGED <<newPc, newResult, initializeOk, initializedOk, proc, pipes,
                   ctxState, connState, hasClient, connected, kills,
                   streamCloses, connCloses, cancels, closeCalls>>

\* No request is waiting for a response.
NoCall == inflight = FALSE

\* What the session's own steps leave alone when a request is followed from
\* its write to its return.
notCallVars == <<storeVars, buildVars, readerVars, mainVars, lexVars, passVars>>

\* The same conn.Call followed step by step, as a goroutine other than the
\* one that calls Close sees it. First the request is written to the
\* stream under c.ctx: over a transport that is not up the write fails and
\* Call returns the error at once; otherwise Call waits.
CallSend ==
    /\ hasClient
    /\ ~inflight
    /\ queries < MaxQueries
    /\ IssueQuery
    /\ IF TransportUp
       THEN inflight' = TRUE /\ lastAnswer' = "pending"
       ELSE inflight' = FALSE /\ lastAnswer' = "error"
    /\ UNCHANGED <<newPc, newResult, initializeOk, initializedOk, proc, pipes,
                   ctxState, connState, hasClient, connected, kills,
                   streamCloses, connCloses, cancels, closeCalls>>

\* The response with the request's id arrives and Call returns it: a result,
\* or the error the server answered with.
CallReturn ==
    /\ inflight
    /\ TransportUp
    /\ inflight' = FALSE
    /\ \E o \in {"result", "error"} : lastAnswer' = o
    /\ UNCHANGED <<sessVarsButAnswer, hardFailAt>>

\* The transport broke while Call waits (the subprocess exited, a pipe was
\* closed) and the connection hands the error to the waiting Call. Nothing
\* in this repository makes the connection do so; the step may never come.
CallTransportError ==
    /\ inflight
    /\ ~TransportUp
    /\ inflight' = FALSE
    /\ lastAnswer' = "error"
    /\ hardFailAt' = IF hardFailAt = 0 THEN queries ELSE hardFailAt
    /\ UNCHANGED sessVarsButAnswer

\* c.ctx, the context every query passes to conn.Call, was cancelled while
\* Call waits: Call returns the context's error.
CallCancelled ==
    /\ inflight
    /\ ctxState = "cancelled"
    /\ inflight' = FALSE
    /\ lastAnswer' = "error"
    /\ hardFailAt' = IF hardFailAt = 0 THEN queries ELSE hardFailAt
    /\ UNCHANGED sessVarsButAnswer

\* ------------------------------------------------------------------------
\* callgraph.BuildCallGraph
\* ------------------------------------------------------------------------

\* One *ast.FuncDecl: its name, whether it has a body, the file it is in.
FuncDecls(k) == [name : Names, body : BOOLEAN, file : 1..k]

\* The files WalkDir parsed, as the function declarations of all of them in
\* walk order; a file may declare no function.
CorporaOf(k) ==
    {[nFiles |-> k, decls |-> ds] :
        ds \in {d \in SeqsUpTo(FuncDecls(k), MaxDecls) :
                  \A i \in 2..Len(d) : d[i - 1].file <= d[i].file}}

Corpora == UNION {CorporaOf(k) : k \in 0..MaxFiles}

EmptyCorpus == [nFiles |-> 0, decls |-> <<>>]

NoDetails == [n \in {} |-> [Signature |-> <<>>, Definition |-> <<>>]]

NoEdges == [n \in {} |-> <<>>]

NoneResolved == [n \in {} |-> {}]

NoBuild ==
    /\ buildPc = "start"
    /\ names = {}
    /\ details = NoDetails
    /\ opened = 0
    /\ cursor = 0
    /\ root = "none"
    /\ skipped = {}
    /\ rawGraph = NoEdges
    /\ resolved = NoneResolved
    /\ out = EmptyGraph
    /\ outNil = {}
    /\ buildResult = "none"

\* names[fn.Name.Name] = struct{}{} for every function declaration.
ParseNames(c) == {c.decls[i].name : i \in 1..Len(c.decls)}

\* printer.Fprint of the i-th declaration's type and of the declaration.
SignatureText(i) == <<"sig", i>>

DefinitionText(i) == <<"def", i>>

Last(S) == CHOOSE i \in S : \A j \in S : j <= i

First(S) == CHOOSE i \in S : \A j \in S : i <= j

\* ExtractDetails keeping the first declaration of a name.
ExtractDetailsFirst(c) ==
    [n \in ParseNames(c) |->
        LET i == First({j \in 1..Len(c.decls) : c.decls[j].name = n})
        IN [Signature |-> SignatureText(i), Definition |-> DefinitionText(i)]]

\* out[fn.Name.Name] = funcDetail{...} for every function declaration in
\* order: a later declaration of a name overwrites an earlier one.
ExtractDetails(c) ==
    [n \in ParseNames(c) |->
        LET i == Last({j \in 1..Len(c.decls) : c.decls[j].name = n})
        IN [Signature |-> SignatureText(i), Definition |-> DefinitionText(i)]]

\* The next declaration after i that extractGraphLSP queries: the loop
\* passes over a declaration without a body. Len + 1 when there is none.
NextQueried(c, i) ==
    LET later == {j \in (i + 1)..Len(c.decls) : c.decls[j].body}
    IN IF later = {} THEN Len(c.decls) + 1
       ELSE CHOOSE j \in later : \A k \in later : j <= k

ExtractPc(c, i) == IF i <= Len(c.decls) THEN "prepare" ELSE "assemble"

\* graph[caller] = append(graph[caller], callee)
AppendCallee(graph, caller, callee) ==
    [n \in DOMAIN graph \cup {caller} |->
        IF n = caller
        THEN (IF caller \in DOMAIN graph
              THEN Append(graph[caller], callee) ELSE <<callee>>)
        ELSE graph[n]]

RECURSIVE RecordCallsUnfiltered(_, _, _, _, _)
\* RecordCalls without the test of names.
RecordCallsUnfiltered(graph, seen, known, caller, calls_) ==
    IF calls_ = <<>> THEN graph
    ELSE LET callee == Head(calls_)
         IN IF callee \notin seen
            THEN RecordCallsUnfiltered(AppendCallee(graph, caller, callee),
                     seen \cup {callee}, known, caller, Tail(calls_))
            ELSE RecordCallsUnfiltered(graph, seen, known, caller, Tail(calls_))

RECURSIVE RecordCalls(_, _, _, _, _)
\* The loop over outgoing: a callee that is no known name is passed over; a
\* known one is appended to graph[caller] unless seen holds it.
RecordCalls(graph, seen, known, caller, calls_) ==
    IF calls_ = <<>> THEN graph
    ELSE LET callee == Head(calls_)
         IN IF callee \notin known
            THEN RecordCalls(graph, seen, known, caller, Tail(calls_))
            ELSE IF callee \notin seen
            THEN RecordCalls(AppendCallee(graph, caller, callee),
                     seen \cup {callee}, known, caller, Tail(calls_))
            ELSE RecordCalls(graph, seen, known, caller, Tail(calls_))

\* AssembleGraph ranging over the edge map instead of the details.
AssembleFromEdges(det, raw) ==
    [n \in DOMAIN raw \cap DOMAIN det |->
        FunctionNode(raw[n], det[n].Signature, det[n].Definition)]

\* A []string: the nil slice, or a slice with its elements.
NilSlice == [isNil |-> TRUE, elems |-> <<>>]

SliceOf(s) == [isNil |-> FALSE, elems |-> s]

\* rawGraph[name]: the list append built for the key, or the zero value of
\* []string, nil, when the map has no such key.
MapIndex(raw, n) == IF n \in DOMAIN raw THEN SliceOf(raw[n]) ELSE NilSlice

\* OrEmpty without the test "callees == nil".
OrEmptyOmitted(s) == s

\* if callees == nil { callees = []string{} }
OrEmpty(s) == IF s.isNil THEN SliceOf(<<>>) ELSE s

\* Step 6 of BuildCallGraph: one node per key of details, with the callees
\* rawGraph holds for the name, or an empty list.
AssembleGraph(det, raw) ==
    [n \in DOMAIN det |->
        FunctionNode(OrEmpty(MapIndex(raw, n)).elems,
                     det[n].Signature, det[n].Definition)]

\* The keys of the assembled map whose Callees is nil.
NilCallees(det, raw) == {n \in DOMAIN det : OrEmpty(MapIndex(raw, n)).isNil}

\* "defer client.Close()" running as BuildCallGraph returns.
DeferredClose ==
    /\ closeCalls' = closeCalls + 1
    /\ CloseBody

NoClose ==
    UNCHANGED <<connected, connState, connCloses, pipes, streamCloses, proc,
                kills, ctxState, cancels, closeCalls>>

\* Steps 1 and 2: parseGoFiles and extractDetails.
BuildParse ==
    /\ buildPc = "start"
    /\ names' = ParseNames(corpus)
    /\ details' = ExtractDetails(corpus)
    /\ buildPc' = "new"
    /\ UNCHANGED <<corpus, opened, cursor, root, skipped, rawGraph, resolved, out, outNil,
                   buildResult>>
    /\ UNCHANGED sessVars

\* Where BuildCallGraph goes once all files are open.
AfterOpenPc(c) == ExtractPc(c, NextQueried(c, 0))

\* Step 3: lspclient.New, and the return when it failed.
BuildNew ==
    /\ buildPc = "new"
    /\ NewStart \/ NewInitializeReturns
    /\ buildPc' = IF newResult' = "none" THEN "new"
                  ELSE IF newResult' # "ok" THEN "done"
                  ELSE IF corpus.nFiles > 0 THEN "open"
                  ELSE AfterOpenPc(corpus)
    /\ buildResult' = IF newResult' \in {"none", "ok"} THEN "none" ELSE "new"
    /\ cursor' = IF newResult' = "ok" /\ corpus.nFiles = 0
                 THEN NextQueried(corpus, 0) ELSE cursor
    /\ UNCHANGED <<corpus, names, details, opened, root, skipped, rawGraph, resolved,
                   out, outNil>>

\* BuildOpenDocument with client.Close() called at the end of the function
\* instead of deferred: the early return does not reach it.
BuildOpenDocumentLeaks ==
    /\ buildPc = "open"
    /\ \/ /\ TransportUp
          /\ opened' = opened + 1
          /\ buildPc' = IF opened + 1 < corpus.nFiles THEN "open"
                        ELSE AfterOpenPc(corpus)
          /\ cursor' = IF opened + 1 < corpus.nFiles THEN cursor
                       ELSE NextQueried(corpus, 0)
          /\ NoClose
          /\ UNCHANGED buildResult
       \/ /\ buildResult' = "open document"
          /\ buildPc' = "done"
          /\ NoClose
          /\ UNCHANGED <<opened, cursor>>
    /\ UNCHANGED <<corpus, names, details, root, skipped, rawGraph, resolved, out,
                   outNil>>
    /\ UNCHANGED <<newPc, newResult, initializeOk, initializedOk, hasClient,
                   queries, lastAnswer, hardFailAt>>

\* BuildOpenDocument with the loop left after its first file.
BuildOpenDocumentStopsEarly ==
    /\ buildPc = "open"
    /\ \/ /\ TransportUp
          /\ opened' = opened + 1
          /\ buildPc' = AfterOpenPc(corpus)
          /\ cursor' = NextQueried(corpus, 0)
          /\ NoClose
          /\ UNCHANGED buildResult
       \/ /\ buildResult' = "open document"
          /\ buildPc' = "done"
          /\ DeferredClose
          /\ UNCHANGED <<opened, cursor>>
    /\ UNCHANGED <<corpus, names, details, root, skipped, rawGraph, resolved, out,
                   outNil>>
    /\ UNCHANGED <<newPc, newResult, initializeOk, initializedOk, hasClient,
                   queries, lastAnswer, hardFailAt>>

\* BuildOpenDocument with the error of OpenDocument logged and the loop
\* going on to the next file.
BuildOpenDocumentAbsorbs ==
    /\ buildPc = "open"
    /\ opened' = opened + 1
    /\ buildPc' = IF opened + 1 < corpus.nFiles THEN "open"
                  ELSE AfterOpenPc(corpus)
    /\ cursor' = IF opened + 1 < corpus.nFiles THEN cursor
                 ELSE NextQueried(corpus, 0)
    /\ NoClose
    /\ UNCHANGED buildResult
    /\ UNCHANGED <<corpus, names, details, root, skipped, rawGraph, resolved, out,
                   outNil>>
    /\ UNCHANGED <<newPc, newResult, initializeOk, initializedOk, hasClient,
                   queries, lastAnswer, hardFailAt>>

\* Step 4, one file: OpenDocument reads the file and writes the didOpen
\* notification; when either fails BuildCallGraph returns the error.
BuildOpenDocument ==
    /\ buildPc = "open"
    /\ \/ /\ TransportUp
          /\ opened' = opened + 1
          /\ buildPc' = IF opened + 1 < corpus.nFiles THEN "open"
                        ELSE AfterOpenPc(corpus)
          /\ cursor' = IF opened + 1 < corpus.nFiles THEN cursor
                       ELSE NextQueried(corpus, 0)
          /\ NoClose
          /\ UNCHANGED buildResult
       \/ /\ buildResult' = "open document"
          /\ buildPc' = "done"
          /\ DeferredClose
          /\ UNCHANGED <<opened, cursor>>
    /\ UNCHANGED <<corpus, names, details, root, skipped, rawGraph, resolved, out,
                   outNil>>
    /\ UNCHANGED <<newPc, newResult, initializeOk, initializedOk, hasClient,
                   queries, lastAnswer, hardFailAt>>

\* "continue": on to the next declaration that has a body.
ContinueLoop ==
    /\ cursor' = NextQueried(corpus, cursor)
    /\ buildPc' = ExtractPc(corpus, NextQueried(corpus, cursor))

\* OnQueryError returning the error from extractGraphLSP instead.
OnQueryErrorReturns ==
    /\ lastAnswer' = "error"
    /\ buildResult' = "extract"
    /\ buildPc' = "done"
    /\ DeferredClose
    /\ UNCHANGED <<cursor, rawGraph, resolved>>

\* A query of the declaration at the cursor returned an error: it is logged
\* and the loop goes on.
OnQueryError ==
    /\ lastAnswer' = "error"
    /\ ContinueLoop
    /\ NoClose
    /\ UNCHANGED <<rawGraph, resolved, buildResult>>

\* BuildPrepare with an empty answer returned as an error of the pass.
BuildPrepareEmptyFails ==
    /\ buildPc = "prepare"
    /\ IssueQuery
    /\ skipped' = {}
    /\ \E o \in CallOutcomes :
         \/ /\ o = "error"
            /\ OnQueryError
            /\ root' = "none"
         \/ /\ o = "result"
            /\ \E items \in SeqsUpTo(Entities, MaxItems) :
                 IF Len(items) = 0
                 THEN /\ lastAnswer' = "empty"
                      /\ buildResult' = "extract"
                      /\ buildPc' = "done"
                      /\ DeferredClose
                      /\ root' = "none"
                      /\ UNCHANGED <<cursor, rawGraph, resolved>>
                 ELSE /\ lastAnswer' = "items"
                      /\ root' = items[1]
                      /\ buildPc' = "outgoing"
                      /\ NoClose
                      /\ UNCHANGED <<cursor, rawGraph, resolved, buildResult>>
    /\ UNCHANGED <<corpus, names, details, opened, out, outNil>>
    /\ UNCHANGED <<newPc, newResult, initializeOk, initializedOk, hasClient>>

\* client.PrepareCallHierarchy for the declaration at the cursor.
BuildPrepare ==
    /\ buildPc = "prepare"
    /\ IssueQuery
    /\ skipped' = {}
    /\ \E o \in CallOutcomes :
         \/ /\ o = "error"
            /\ OnQueryError
            /\ root' = "none"
         \/ /\ o = "result"
            /\ \E items \in SeqsUpTo(Entities, MaxItems) :
                 IF Len(items) = 0
                 THEN /\ lastAnswer' = "empty"
                      /\ ContinueLoop
                      /\ root' = "none"
                 ELSE /\ lastAnswer' = "items"
                      /\ root' = items[1]
                      /\ buildPc' = "outgoing"
                      /\ UNCHANGED cursor
            /\ NoClose
            /\ UNCHANGED <<rawGraph, resolved, buildResult>>
    /\ UNCHANGED <<corpus, names, details, opened, out, outNil>>
    /\ UNCHANGED <<newPc, newResult, initializeOk, initializedOk, hasClient>>

\* The known names an OutgoingCalls answer held for a declaration of the
\* caller, added to those its other declarations got.
WithResolved(res, caller, found) ==
    IF found = {} THEN res
    ELSE [n \in DOMAIN res \cup {caller} |->
             IF n = caller
             THEN (IF caller \in DOMAIN res THEN res[caller] ELSE {}) \cup found
             ELSE res[n]]

\* client.OutgoingCalls(root) and the loop over its answer.
BuildOutgoing ==
    /\ buildPc = "outgoing"
    /\ IssueQuery
    /\ root' = "none"
    /\ \E o \in CallOutcomes :
         \/ /\ o = "error"
            /\ OnQueryError
            /\ skipped' = {}
         \/ /\ o = "result"
            /\ \E answer \in SeqsUpTo(Callables, MaxOut) :
                 /\ skipped' = Range(answer) \ names
                 /\ rawGraph' = RecordCalls(rawGraph, {}, names,
                                    corpus.decls[cursor].name, answer)
                 /\ resolved' = WithResolved(resolved,
                                    corpus.decls[cursor].name,
                                    Range(answer) \cap names)
            /\ lastAnswer' = "calls"
            /\ ContinueLoop
            /\ NoClose
            /\ UNCHANGED buildResult
    /\ UNCHANGED <<corpus, names, details, opened, out, outNil>>
    /\ UNCHANGED <<newPc, newResult, initializeOk, initializedOk, hasClient>>

\* Step 6 and the return of the assembled map.
BuildAssemble ==
    /\ buildPc = "assemble"
    /\ out' = AssembleGraph(details, rawGraph)
    /\ outNil' = NilCallees(details, rawGraph)
    /\ buildResult' = "ok"
    /\ buildPc' = "done"
    /\ DeferredClose
    /\ UNCHANGED <<corpus, names, details, opened, cursor, root, skipped,
                   rawGraph, resolved>>
    /\ UNCHANGED <<newPc, newResult, initializeOk, initializedOk, hasClient,
                   queries, lastAnswer, hardFailAt>>

\* ------------------------------------------------------------------------
\* extractGraphLSP, request by request
\* ------------------------------------------------------------------------

\* extractGraphLSP has not been entered.
NoPass ==
    /\ passPc = "prepare"
    /\ passDecls = <<>>
    /\ passNames = {}
    /\ passCursor = 1
    /\ passItems = <<>>
    /\ passRoot = "none"
    /\ passGraph = NoEdges
    /\ outstanding = 0
    /\ reqKind = "none"
    /\ outReqs = 0

\* "continue", or the end of the loop body: on to the next declaration.
PassContinue ==
    /\ passCursor' = passCursor + 1
    /\ passPc' = "prepare"

\* FirstItem taking the last item of the answer.
LastItem(its) == its[Len(its)]

\* root := items[0]
FirstItem(its) == its[1]

\* client.PrepareCallHierarchy(file, protoPos) up to the point where
\* conn.Call waits: the request is written, or the write fails and the
\* error is logged.
PassPrepareSend ==
    /\ hasClient
    /\ passPc = "prepare"
    /\ passCursor <= Len(passDecls)
    /\ IssueQuery
    /\ reqKind' = "prepare"
    /\ passItems' = <<>>
    /\ passRoot' = "none"
    /\ outReqs' = 0
    /\ IF TransportUp
       THEN /\ outstanding' = outstanding + 1
            /\ lastAnswer' = "pending"
            /\ passPc' = "prepareWait"
            /\ UNCHANGED passCursor
       ELSE /\ lastAnswer' = "error"
            /\ PassContinue
            /\ UNCHANGED outstanding
    /\ UNCHANGED <<passDecls, passNames, passGraph>>

\* conn.Call returns to PrepareCallHierarchy: the items of the response, or
\* an error (the server's, or the transport's once it is down).
PassPrepareReturn ==
    /\ passPc = "prepareWait"
    /\ outstanding' = outstanding - 1
    /\ \/ /\ lastAnswer' = "error"
          /\ PassContinue
          /\ UNCHANGED <<passItems, passRoot>>
       \/ /\ TransportUp
          /\ \E its \in SeqsUpTo(Entities, MaxItems) :
               /\ passItems' = its
               /\ IF Len(its) = 0
                  THEN /\ lastAnswer' = "empty"
                       /\ PassContinue
                       /\ UNCHANGED passRoot
                  ELSE /\ lastAnswer' = "items"
                       /\ passRoot' = FirstItem(its)
                       /\ passPc' = "outgoing"
                       /\ UNCHANGED passCursor
    /\ UNCHANGED <<passDecls, passNames, passGraph, reqKind, outReqs,
                   queries, hardFailAt>>

\* PassOutgoingSend not waiting for the response of PrepareCallHierarchy.
PassOutgoingSendPipelined ==
    /\ passPc \in {"prepareWait", "outgoing"}
    /\ IssueQuery
    /\ reqKind' = "outgoing"
    /\ outReqs' = outReqs + 1
    /\ outstanding' = outstanding + 1
    /\ lastAnswer' = "pending"
    /\ passPc' = "outgoingWait"
    /\ UNCHANGED <<passDecls, passNames, passCursor, passItems, passRoot,
                   passGraph>>

\* client.OutgoingCalls(root) up to the point where conn.Call waits.
PassOutgoingSend ==
    /\ passPc = "outgoing"
    /\ IssueQuery
    /\ reqKind' = "outgoing"
    /\ outReqs' = outReqs + 1
    /\ IF TransportUp
       THEN /\ outstanding' = outstanding + 1
            /\ lastAnswer' = "pending"
            /\ passPc' = "outgoingWait"
            /\ UNCHANGED passCursor
       ELSE /\ lastAnswer' = "error"
            /\ PassContinue
            /\ UNCHANGED outstanding
    /\ UNCHANGED <<passDecls, passNames, passItems, passRoot, passGraph>>

\* conn.Call returns to OutgoingCalls, and the loop over the answer.
PassOutgoingReturn ==
    /\ passPc = "outgoingWait"
    /\ outstanding' = outstanding - 1
    /\ \/ /\ lastAnswer' = "error"
          /\ UNCHANGED passGraph
       \/ /\ TransportUp
          /\ lastAnswer' = "calls"
          /\ \E answer \in SeqsUpTo(Callables, MaxOut) :
               passGraph' = RecordCalls(passGraph, {}, passNames,
                                passDecls[passCursor], answer)
    /\ PassContinue
    /\ UNCHANGED <<passDecls, passNames, passItems, passRoot, reqKind, outReqs,
                   queries, hardFailAt>>

\* return graph, nil
PassReturn ==
    /\ hasClient
    /\ passPc = "prepare"
    /\ passCursor > Len(passDecls)
    /\ passPc' = "returned"
    /\ UNCHANGED <<passDecls, passNames, passCursor, passItems, passRoot,
                   passGraph, outstanding, reqKind, outReqs, queries,
                   lastAnswer, hardFailAt>>

\* What a step of the pass leaves alone of the session, and outside it.
sessVarsOfNew == <<newPc, newResult, initializeOk, initializedOk, proc,
                   pipes, ctxState, connState, hasClient, connected, kills,
                   streamCloses, connCloses, cancels, closeCalls>>

notPassVars == <<sessVarsOfNew, storeVars, buildVars, callVars, readerVars,
                 mainVars, lexVars>>

\* ------------------------------------------------------------------------
\* The lexical extractor (oldcode2.md)
\* ------------------------------------------------------------------------

\* The names a corpus of the lexical mode can declare.
LexNames == {"A", "B", "C"}

\* callExpr.Fun of a call expression: an identifier, a selector expression
\* with its Sel name, or an expression of another kind (a function literal,
\* an index or parenthesised expression). X is declared in no corpus.
CallTargets ==
    [kind : {"ident", "selector"}, name : {"B", "X"}]
        \cup {[kind |-> "ident", name |-> "C"], [kind |-> "other", name |-> "B"]}

\* The lexical extractor has not run: the corpus declares no name.
NoLex ==
    /\ funcNames = {}
    /\ lexPc = "walk"
    /\ lexCaller = "none"
    /\ calleeSet = {}
    /\ visited = {}
    /\ nSites = 0
    /\ nDecls = 0
    /\ walked = {}
    /\ totalSites = 0
    /\ lexGraph = NoEdges
    /\ lexOut = EmptyGraph

\* parseGoFiles has collected the declared names; extractCallGraph starts
\* with an empty graph.
LexStart(declared) ==
    /\ funcNames = declared
    /\ lexPc = "walk"
    /\ lexCaller = "none"
    /\ calleeSet = {}
    /\ visited = {}
    /\ nSites = 0
    /\ nDecls = 0
    /\ walked = {}
    /\ totalSites = 0
    /\ lexGraph = NoEdges
    /\ lexOut = EmptyGraph

\* The loop reaches a function declaration with a body: caller is its name,
\* calleeSet a new empty map. Other declarations are passed over.
LexNextDecl ==
    /\ lexPc = "walk"
    /\ nDecls < MaxLexDecls
    /\ \E c \in funcNames :
         /\ lexCaller' = c
         /\ walked' = walked \cup {c}
    /\ calleeSet' = {}
    /\ visited' = {}
    /\ nSites' = 0
    /\ nDecls' = nDecls + 1
    /\ lexPc' = "inspect"
    /\ UNCHANGED <<funcNames, totalSites, lexGraph, lexOut>>

\* VisitCall without the case of the selector expression.
VisitCallIdentOnly(set, known, t) ==
    IF t.kind = "ident" /\ t.name \in known THEN set \cup {t.name} ELSE set

\* The callback of ast.Inspect at a call expression with target t: the
\* switch on callExpr.Fun and the test of funcNames.
VisitCall(set, known, t) ==
    IF t.kind = "ident"
    THEN (IF t.name \in known THEN set \cup {t.name} ELSE set)
    ELSE IF t.kind = "selector"
    THEN (IF t.name \in known THEN set \cup {t.name} ELSE set)
    ELSE set

\* ast.Inspect meets the next call expression of the body, wherever it is
\* nested.
LexInspectCall ==
    /\ lexPc = "inspect"
    /\ nSites < MaxCallSites
    /\ \E t \in CallTargets :
         /\ calleeSet' = VisitCall(calleeSet, funcNames, t)
         /\ visited' = visited \cup {t}
    /\ nSites' = nSites + 1
    /\ totalSites' = totalSites + 1
    /\ UNCHANGED <<funcNames, lexPc, lexCaller, nDecls, walked, lexGraph,
                   lexOut>>

RECURSIVE AppendCallees(_, _, _)
\* graph[caller] = append(graph[caller], callee) for the callees in order.
AppendCallees(g, c, order) ==
    IF order = <<>> THEN g
    ELSE AppendCallees(AppendCallee(g, c, Head(order)), c, Tail(order))

\* ast.Inspect has returned: "for callee := range calleeSet" appends the
\* set to graph[caller] in the order the map yields it.
LexRange ==
    /\ lexPc = "inspect"
    /\ \E order \in Orderings(calleeSet) :
         lexGraph' = AppendCallees(lexGraph, lexCaller, order)
    /\ lexPc' = "walk"
    /\ UNCHANGED <<funcNames, lexCaller, calleeSet, visited, nSites, nDecls,
                   walked, totalSites, lexOut>>

\* extractFuncDetails: an entry for every declared name.
LexDetails(declared) ==
    [n \in declared |-> [Signature |-> <<"sig", n>>, Definition |-> <<"def", n>>]]

\* buildCallGraph's merge: a node for every key of details, with raw's
\* callees for the name or an empty list.
MergeGraph(det, raw) ==
    [n \in DOMAIN det |->
        FunctionNode(IF n \in DOMAIN raw THEN raw[n] ELSE <<>>,
                     det[n].Signature, det[n].Definition)]

\* The walk is over: buildCallGraph merges and returns.
LexAssemble ==
    /\ lexPc = "walk"
    /\ lexOut' = MergeGraph(LexDetails(funcNames), lexGraph)
    /\ lexPc' = "assembled"
    /\ UNCHANGED <<funcNames, lexCaller, calleeSet, visited, nSites, nDecls,
                   walked, totalSites, lexGraph>>

\* ------------------------------------------------------------------------
\* main
\* ------------------------------------------------------------------------

\* What main's own statements leave alone.
notMainVars == <<storeVars, sessVars, buildVars, callVars, readerVars,
                 lexVars, passVars>>

NoMain ==
    /\ mainPc = "build"
    /\ mainGraph = EmptyGraph
    /\ served = EmptyGraph

\* What graph.db holds when the run starts: the rows an earlier run
\* committed for a corpus whose only function A calls itself.
PersistedBefore ==
    [functions |-> [n \in {"A"} |-> [Signature |-> SignatureText(1),
                                     Definition |-> DefinitionText(1)]],
     calls |-> {<<"A", "A">>}]

\* BuildCallGraph has returned and its frame is gone: its locals, the
\* parsed files among them, and the closed Client are unreachable; main
\* holds the returned map and error.
BuildFrameGone ==
    /\ newPc' = "unstarted"
    /\ newResult' = "none"
    /\ initializeOk' = FALSE
    /\ initializedOk' = FALSE
    /\ proc' = "none"
    /\ pipes' = "none"
    /\ ctxState' = "none"
    /\ connState' = "none"
    /\ hasClient' = FALSE
    /\ connected' = FALSE
    /\ kills' = 0
    /\ streamCloses' = 0
    /\ connCloses' = 0
    /\ cancels' = 0
    /\ closeCalls' = 0
    /\ queries' = 0
    /\ lastAnswer' = "none"
    /\ hardFailAt' = 0
    /\ names' = {}
    /\ details' = NoDetails
    /\ opened' = 0
    /\ cursor' = 0
    /\ root' = "none"
    /\ skipped' = {}
    /\ rawGraph' = NoEdges
    /\ resolved' = NoneResolved
    /\ out' = EmptyGraph
    /\ outNil' = {}
    /\ corpus' = EmptyCorpus
    /\ UNCHANGED <<buildPc, buildResult>>

\* MainBuildReturns with the error of BuildCallGraph not looked at.
MainBuildReturnsUnchecked ==
    /\ mainPc = "build"
    /\ buildPc = "done"
    /\ mainGraph' = out
    /\ mainPc' = "open"
    /\ BuildFrameGone
    /\ UNCHANGED served

\* graph, err := callgraph.BuildCallGraph("."); if err != nil { log.Fatal }
MainBuildReturns ==
    /\ mainPc = "build"
    /\ buildPc = "done"
    /\ mainGraph' = out
    /\ mainPc' = IF buildResult = "ok" THEN "open" ELSE "fatal"
    /\ BuildFrameGone
    /\ UNCHANGED served

\* store, err := persistence.NewStore("graph.db"): CREATE TABLE IF NOT
\* EXISTS leaves the rows of the file as they are.
MainNewStore ==
    /\ mainPc = "open"
    /\ \/ mainPc' = "save"
       \/ mainPc' = "fatal"
    /\ UNCHANGED <<mainGraph, served>>

\* store.SaveGraph(graph)
MainSaveGraph ==
    /\ mainPc = "save"
    /\ SaveBeginOf({mainGraph})

\* if err := store.SaveGraph(graph); err != nil { log.Fatal(err) }, and the
\* same after store.LoadGraph().
MainFatal ==
    /\ mainPc = "save"
    /\ saveResult \in SaveFailures \/ loadResult = "err"
    /\ mainPc' = "fatal"
    /\ UNCHANGED <<mainGraph, served>>

\* server.StartServer(":8080", loaded)
MainStartServer ==
    /\ mainPc = "save"
    /\ loadResult = "ok"
    /\ served' = loaded
    /\ mainPc' = "serving"
    /\ UNCHANGED mainGraph

InitStore == NewStore /\ NoSession /\ NoCall /\ NoReader /\ NoMain /\ NoLex /\ NoPass /\ NoBuild /\ corpus = EmptyCorpus

NextStore ==
    \/ SaveBegin /\ UNCHANGED notStoreVars
    \/ DeleteCalls /\ UNCHANGED notStoreVars
    \/ DeleteFunctions /\ UNCHANGED notStoreVars
    \/ PrepareInsertFn /\ UNCHANGED notStoreVars
    \/ PrepareInsertCall /\ UNCHANGED notStoreVars
    \/ InsertFunction /\ UNCHANGED notStoreVars
    \/ InsertCallsOfCaller /\ UNCHANGED notStoreVars
    \/ Commit /\ UNCHANGED notStoreVars
    \/ LoadGraph /\ UNCHANGED notStoreVars
    \/ Restart /\ UNCHANGED notStoreVars

SpecStore == InitStore /\ [][NextStore]_vars

\* SaveGraph and a LoadGraph that runs beside it on the same file.
InitReader == InitStore

NextReader ==
    \/ SaveBegin /\ UNCHANGED notStoreVars
    \/ DeleteCalls /\ UNCHANGED notStoreVars
    \/ DeleteFunctions /\ UNCHANGED notStoreVars
    \/ PrepareInsertFn /\ UNCHANGED notStoreVars
    \/ PrepareInsertCall /\ UNCHANGED notStoreVars
    \/ InsertFunction /\ UNCHANGED notStoreVars
    \/ InsertCallsOfCaller /\ UNCHANGED notStoreVars
    \/ Commit /\ UNCHANGED notStoreVars
    \/ Restart /\ rdPc = "idle" /\ UNCHANGED notStoreVars
    \/ ReadFunctions /\ UNCHANGED notReaderVars
    \/ ReadCalls /\ UNCHANGED notReaderVars

SpecReader == InitReader /\ [][NextReader]_vars

InitSession == NewStore /\ NoSession /\ NoCall /\ NoReader /\ NoMain /\ NoLex /\ NoPass /\ NoBuild /\ corpus = EmptyCorpus

NextSession ==
    \/ NewStart /\ UNCHANGED notSessVars
    \/ NewInitializeReturns /\ UNCHANGED notSessVars
    \/ ProcessExits /\ UNCHANGED notSessVars
    \/ Close /\ UNCHANGED notSessVars
    \/ SessionQuery /\ ~inflight /\ UNCHANGED notSessVars
    \/ CallSend /\ UNCHANGED notCallVars
    \/ CallReturn /\ UNCHANGED notCallVars
    \/ CallTransportError /\ UNCHANGED notCallVars
    \/ CallCancelled /\ UNCHANGED notCallVars

SpecSession == InitSession /\ [][NextSession]_vars

\* The goroutine that waits in conn.Call is scheduled: once the context is
\* cancelled the wait ends.
SpecSessionFair ==
    SpecSession /\ WF_vars(CallCancelled /\ UNCHANGED notCallVars)

InitBuild == NewStore /\ NoSession /\ NoCall /\ NoReader /\ NoMain /\ NoLex /\ NoPass /\ NoBuild /\ corpus \in Corpora

NextBuild ==
    \/ BuildParse /\ UNCHANGED notBuildVars
    \/ BuildNew /\ UNCHANGED notBuildVars
    \/ BuildOpenDocument /\ UNCHANGED notBuildVars
    \/ BuildPrepare /\ UNCHANGED notBuildVars
    \/ BuildOutgoing /\ UNCHANGED notBuildVars
    \/ BuildAssemble /\ UNCHANGED notBuildVars
    \/ ProcessExits /\ buildPc # "done" /\ UNCHANGED notSessVars

SpecBuild == InitBuild /\ [][NextBuild]_vars

\* One run of main over a corpus and the graph.db an earlier run wrote.
InitMain ==
    /\ functions = PersistedBefore.functions
    /\ calls = PersistedBefore.calls
    /\ NoSave
    /\ NoSession /\ NoCall /\ NoReader /\ NoMain /\ NoLex /\ NoPass /\ NoBuild
    /\ corpus \in Corpora

NextMain ==
    \/ BuildParse /\ UNCHANGED notBuildVars
    \/ BuildNew /\ UNCHANGED notBuildVars
    \/ BuildOpenDocument /\ UNCHANGED notBuildVars
    \/ BuildPrepare /\ UNCHANGED notBuildVars
    \/ BuildOutgoing /\ UNCHANGED notBuildVars
    \/ BuildAssemble /\ UNCHANGED notBuildVars
    \/ ProcessExits /\ buildPc # "done" /\ UNCHANGED notSessVars
    \/ MainBuildReturns /\ UNCHANGED <<storeVars, callVars, readerVars, lexVars,
                                       passVars>>
    \/ MainNewStore /\ UNCHANGED notMainVars
    \/ MainSaveGraph /\ UNCHANGED notStoreVars
    \/ DeleteCalls /\ UNCHANGED notStoreVars
    \/ DeleteFunctions /\ UNCHANGED notStoreVars
    \/ PrepareInsertFn /\ UNCHANGED notStoreVars
    \/ PrepareInsertCall /\ UNCHANGED notStoreVars
    \/ InsertFunction /\ UNCHANGED notStoreVars
    \/ InsertCallsOfCaller /\ UNCHANGED notStoreVars
    \/ Commit /\ UNCHANGED notStoreVars
    \/ LoadGraph /\ mainPc = "save" /\ UNCHANGED notStoreVars
    \/ MainFatal /\ UNCHANGED notMainVars
    \/ MainStartServer /\ UNCHANGED notMainVars

SpecMain == InitMain /\ [][NextMain]_vars

\* One run of the lexical extractor over a corpus.
\* What the steps of the lexical extractor leave alone.
notLexVars == <<storeVars, sessVars, buildVars, callVars, readerVars,
                mainVars, passVars>>

InitLexical ==
    /\ NewStore /\ NoSession /\ NoCall /\ NoReader /\ NoMain /\ NoPass /\ NoBuild
    /\ corpus = EmptyCorpus
    /\ \E declared \in {S \in SUBSET LexNames : {"A", "B"} \subseteq S} :
         LexStart(declared)

NextLexical ==
    \/ LexNextDecl /\ UNCHANGED notLexVars
    \/ LexInspectCall /\ UNCHANGED notLexVars
    \/ LexRange /\ UNCHANGED notLexVars
    \/ LexAssemble /\ UNCHANGED notLexVars

SpecLexical == InitLexical /\ [][NextLexical]_vars

\* The rows a graph.db can hold when NewStore opens it: any functions rows
\* and any calls rows, written by this program or not; the schema's
\* primary keys hold, its foreign keys only where the writer enforced them.
FunctionRows == UNION {[K -> NodeTexts] : K \in SUBSET Names}

CallRows ==
    {E \in SUBSET (Callables \X Callables) : Cardinality(E) <= MaxEdgeRows}

\* LoadGraph on a graph.db as found, with no save beside it.
InitLoad ==
    /\ functions \in FunctionRows
    /\ calls \in CallRows
    /\ NoSave
    /\ NoSession /\ NoCall /\ NoReader /\ NoMain /\ NoLex /\ NoPass /\ NoBuild
    /\ corpus = EmptyCorpus

NextLoad ==
    \/ ReadFunctions /\ UNCHANGED notReaderVars
    \/ ReadCalls /\ UNCHANGED notReaderVars

SpecLoad == InitLoad /\ [][NextLoad]_vars

\* One extraction pass over a session lspclient.New sets up: the
\* declarations with a body of some corpus, and the names it declares.
InitPass ==
    /\ NewStore /\ NoSession /\ NoCall /\ NoReader /\ NoMain /\ NoLex /\ NoBuild
    /\ corpus = EmptyCorpus
    /\ passPc = "prepare"
    /\ passDecls \in SeqsUpTo(Names, MaxDecls)
    /\ passNames \in {S \in SUBSET Names : Range(passDecls) \subseteq S}
    /\ passCursor = 1
    /\ passItems = <<>>
    /\ passRoot = "none"
    /\ passGraph = NoEdges
    /\ outstanding = 0
    /\ reqKind = "none"
    /\ outReqs = 0

NextPass ==
    \/ NewStart /\ UNCHANGED notSessVars
    \/ NewInitializeReturns /\ UNCHANGED notSessVars
    \/ ProcessExits /\ UNCHANGED notSessVars
    \/ PassPrepareSend /\ UNCHANGED notPassVars
    \/ PassPrepareReturn /\ UNCHANGED notPassVars
    \/ PassOutgoingSend /\ UNCHANGED notPassVars
    \/ PassOutgoingReturn /\ UNCHANGED notPassVars
    \/ PassReturn /\ UNCHANGED notPassVars

SpecPass == InitPass /\ [][NextPass]_vars

\* ------------------------------------------------------------------------
\* Properties of the store (SpecStore)
\* ------------------------------------------------------------------------

\* What a graph's keys, signatures and definitions are as functions rows.
RowsOf(G) ==
    [n \in DOMAIN G |->
        [Signature |-> G[n].Signature, Definition |-> G[n].Definition]]

\* C1, as stated: after SaveGraph(G) returned nil for a G whose callees are
\* all keys, LoadGraph returns G's keys and under each G's signature, G's
\* definition and G's callee list up to order.
C1_RoundTripUpToOrder ==
    (saveResult = "ok" /\ loadResult = "ok" /\ ClosedWorld(saveArg)) =>
        /\ DOMAIN loaded = DOMAIN saveArg
        /\ \A n \in DOMAIN saveArg :
             /\ loaded[n].Signature = saveArg[n].Signature
             /\ loaded[n].Definition = saveArg[n].Definition
             /\ SameUpToOrder(loaded[n].Callees, saveArg[n].Callees)

\* C1, amended: LoadGraph returns G's keys, signatures and definitions, and
\* under each key the set of G's callees with every name listed once; where
\* G's list repeats no name that is G's list up to order.
C1_RoundTripDistinctCallees ==
    (saveResult = "ok" /\ loadResult = "ok" /\ ClosedWorld(saveArg)) =>
        /\ DOMAIN loaded = DOMAIN saveArg
        /\ \A n \in DOMAIN saveArg :
             /\ loaded[n].Signature = saveArg[n].Signature
             /\ loaded[n].Definition = saveArg[n].Definition
             /\ Range(loaded[n].Callees) = Range(saveArg[n].Callees)
             /\ NoDup(loaded[n].Callees)
             /\ NoDup(saveArg[n].Callees) =>
                    SameUpToOrder(loaded[n].Callees, saveArg[n].Callees)

\* A graph with two keys, one of them calling both, was saved over a store
\* that held other rows, and loaded back.
C1_Witness ==
    /\ saveResult = "ok"
    /\ loadResult = "ok"
    /\ prevFunctions # NoRows
    /\ prevFunctions # RowsOf(saveArg)
    /\ \E n \in DOMAIN saveArg :
         Len(saveArg[n].Callees) = 2 /\ NoDup(saveArg[n].Callees)

\* C2: while SaveGraph runs and after it returned an error, whatever the
\* statement that failed, the committed rows of functions and calls are the
\* rows the store held when the call began.
C2_SaveAllOrNothing ==
    (saveResult = "running" \/ saveResult \in SaveFailures) =>
        /\ functions = prevFunctions
        /\ calls = prevCalls

\* An edge insert failed after the deletes and the function inserts had run
\* in the transaction, over a store that held functions and edges.
C2_Witness ==
    /\ saveResult = "insert call"
    /\ functions # NoRows
    /\ calls # {}

\* C3: after SaveGraph(G) returned nil the functions rows are the keys of G
\* with their texts and the calls rows are the distinct pairs of G, whatever
\* the store held; so saving G over a store that holds G changes nothing.
C3_SaveReplaces ==
    saveResult = "ok" =>
        /\ functions = RowsOf(saveArg)
        /\ calls = EdgePairs(saveArg)
        /\ (prevFunctions = RowsOf(saveArg) /\ prevCalls = EdgePairs(saveArg)) =>
               (functions = prevFunctions /\ calls = prevCalls)

\* A save succeeded over a store holding a function and an edge that the new
\* graph does not have.
C3_Witness ==
    /\ saveResult = "ok"
    /\ \E n \in DOMAIN prevFunctions : n \notin DOMAIN saveArg
    /\ \E e \in prevCalls : e \notin EdgePairs(saveArg)
    /\ DOMAIN saveArg # {}

\* ------------------------------------------------------------------------
\* Properties of the build pipeline (SpecBuild)
\* ------------------------------------------------------------------------

\* C4: when BuildCallGraph returns a graph, every name parseGoFiles put in
\* the known-name set is a key of it.
C4_Completeness ==
    buildResult = "ok" => names \subseteq DOMAIN out

\* A graph was returned for a corpus of two names, one of them declared
\* without a body only, after the last query failed and no edge was found.
C4_Witness ==
    /\ buildResult = "ok"
    /\ Cardinality(names) = 2
    /\ \E n \in names :
         \A i \in 1..Len(corpus.decls) :
             corpus.decls[i].name = n => ~corpus.decls[i].body
    /\ lastAnswer = "error"
    /\ rawGraph = NoEdges

\* C5: every callee extractGraphLSP records is a known name, and in the
\* graph BuildCallGraph returns every callee is a key.
C5_ClosedWorldEdges ==
    /\ \A n \in DOMAIN rawGraph : Range(rawGraph[n]) \subseteq names
    /\ buildResult = "ok" => ClosedWorld(out)

\* A graph with an edge was returned after the resolver named a callee that
\* is not in the known-name set.
C5_Witness ==
    /\ buildResult = "ok"
    /\ skipped # {}
    /\ \E n \in DOMAIN out : out[n].Callees # <<>>

\* C6, as stated: no caller's callee list holds a name twice, in
\* extractGraphLSP's map and in the graph BuildCallGraph returns.
C6_NoDuplicateCallees ==
    /\ \A n \in DOMAIN rawGraph : NoDup(rawGraph[n])
    /\ buildResult = "ok" => \A n \in DOMAIN out : NoDup(out[n].Callees)

\* C7, as stated: after the first query that found the transport closed no
\* further query is issued.
C7_NoQueryAfterTransportClosed ==
    hardFailAt # 0 => queries = hardFailAt

\* C8: a step in which PrepareCallHierarchy or OutgoingCalls returns an
\* error leaves every recorded callee list as it was, moves on to the next
\* declaration with a body (or to the assembly) and does not make
\* BuildCallGraph return; and extractGraphLSP never returns an error.
C8_QueryFailureAbsorbed ==
    /\ [](buildResult # "extract")
    /\ [][(/\ buildPc \in {"prepare", "outgoing"}
           /\ queries' = queries + 1
           /\ lastAnswer' = "error")
          => (/\ rawGraph' = rawGraph
              /\ buildResult' = "none"
              /\ cursor' = NextQueried(corpus, cursor)
              /\ buildPc' = ExtractPc(corpus, NextQueried(corpus, cursor)))]_vars

\* A query failed while edges of an earlier function were recorded, and the
\* extraction is at the next function.
C8_Witness ==
    /\ lastAnswer = "error"
    /\ buildPc = "prepare"
    /\ rawGraph # NoEdges
    /\ corpus.decls[cursor].name \notin DOMAIN rawGraph

\* ------------------------------------------------------------------------
\* Properties of the session (SpecSession)
\* ------------------------------------------------------------------------

\* C9: when New fails in the handshake the pipes were closed, the
\* subprocess was killed and the context was cancelled, once each, and no
\* Client exists; a connected Client exists only after the initialize
\* request was answered and the initialized notification was written.
C9_HandshakeFailureCleansUp ==
    /\ newResult \in {"initialize", "initialized"} =>
           /\ streamCloses = 1 /\ pipes = "closed"
           /\ kills = 1 /\ proc \in {"killed", "exited"}
           /\ cancels = 1 /\ ctxState = "cancelled"
           /\ ~hasClient
           /\ ~connected
    /\ connected => (hasClient /\ initializeOk /\ initializedOk)
    /\ hasClient => newResult = "ok"

\* The initialize request was answered, the initialized notification
\* failed, and the running subprocess was killed.
C9_Witness ==
    /\ newResult = "initialized"
    /\ initializeOk
    /\ proc = "killed"

\* The session is closed and each teardown step ran exactly once.
ClosedOnce ==
    /\ connCloses = 1 /\ connState = "closed"
    /\ streamCloses = 1 /\ pipes = "closed"
    /\ kills = 1 /\ proc \in {"killed", "exited"}
    /\ cancels = 1 /\ ctxState = "cancelled"
    /\ ~connected

\* C10: once Close was called on the Client, however often, the connection
\* close, the pipe close, the kill and the cancel each ran exactly once and
\* the session is closed; a Close after the first changes nothing of the
\* session but the count of the calls.
C10_CloseIdempotent ==
    /\ []((hasClient /\ closeCalls >= 1) => ClosedOnce)
    /\ [][(closeCalls >= 1 /\ closeCalls' = closeCalls + 1) =>
            UNCHANGED <<connected, connState, connCloses, pipes, streamCloses,
                        proc, kills, ctxState, cancels, hasClient, newResult>>]_vars

\* Close was called three times on a session whose subprocess was running
\* at the first.
C10_Witness ==
    /\ hasClient
    /\ closeCalls = 3
    /\ proc = "killed"

\* C11: a request issued after Close has returned, or after an earlier
\* request found the transport closed, returns an error in the step that
\* issues it and is never left waiting for a response.
C11_QueryAfterCloseFails ==
    [][(/\ queries' = queries + 1
        /\ (closeCalls >= 1 \/ hardFailAt # 0))
       => (lastAnswer' = "error" /\ ~inflight')]_vars

\* A first request found the transport closed and a later one was issued,
\* both after Close had killed the running subprocess.
C11_Witness ==
    /\ closeCalls >= 1
    /\ proc = "killed"
    /\ hardFailAt # 0
    /\ queries > hardFailAt
    /\ lastAnswer = "error"
    /\ ~inflight

\* C12: once Close was called the subprocess is terminated; a request that
\* waits for its response when Close is called returns, with an error and
\* with nothing else, and does not wait for ever.
C12_TeardownEndsInflightQuery ==
    /\ []((hasClient /\ closeCalls >= 1) => proc \in {"killed", "exited"})
    /\ [][(inflight /\ closeCalls >= 1 /\ ~inflight') =>
            lastAnswer' = "error"]_vars
    /\ ((inflight /\ closeCalls >= 1) ~> (~inflight /\ lastAnswer = "error"))

\* Close ran and killed the running subprocess while a request waited.
C12_Witness ==
    /\ inflight
    /\ closeCalls >= 1
    /\ proc = "killed"
    /\ ctxState = "cancelled"

\* ------------------------------------------------------------------------
\* Properties of the build pipeline and its session (SpecBuild)
\* ------------------------------------------------------------------------

\* C13: when BuildCallGraph has returned after lspclient.New succeeded, on
\* whichever path, Close ran once and the session is closed: the connection
\* and the pipes closed, the subprocess killed, the context cancelled.
C13_SessionReleasedOnReturn ==
    (buildPc = "done" /\ newResult = "ok") => (closeCalls = 1 /\ ClosedOnce)

\* OpenDocument failed for the second file and BuildCallGraph returned the
\* error; the subprocess ran until Close killed it.
C13_Witness ==
    /\ buildPc = "done"
    /\ buildResult = "open document"
    /\ opened = 1
    /\ proc = "killed"

\* C14: a step that issues PrepareCallHierarchy or OutgoingCalls issues it
\* for a declaration whose file is among the files a didOpen notification
\* was written for; the count of those files never falls.
C14_RegistrationPrecedesQueries ==
    /\ [][queries' = queries + 1 =>
             corpus.decls[cursor].file \in 1..opened]_vars
    /\ [][opened' >= opened]_vars

\* The files of a two-file corpus were registered and a query was answered
\* for a declaration of the second file.
C14_Witness ==
    /\ buildPc = "outgoing"
    /\ lastAnswer = "items"
    /\ opened = 2
    /\ corpus.decls[cursor].file = 2

\* C20: the initialized notification is written only in the handshake the
\* initialize request began and only once that request was answered; a
\* didOpen notification is written only after it, before every query and
\* before Close; a query is issued only after it, after the didOpen of
\* every file and before Close; once Close ran BuildCallGraph has returned
\* and writes nothing more.
C20_ProtocolOrder ==
    /\ [](initializedOk => initializeOk)
    /\ [](closeCalls >= 1 => buildPc = "done")
    /\ [][(initializedOk' /\ ~initializedOk) =>
            (newPc = "handshake" /\ initializeOk')]_vars
    /\ [][opened' = opened + 1 =>
            (initializedOk /\ queries = 0 /\ closeCalls = 0)]_vars
    /\ [][queries' = queries + 1 =>
            (initializedOk /\ opened = corpus.nFiles /\ closeCalls = 0)]_vars
    /\ [][buildPc = "done" => UNCHANGED <<initializedOk, opened, queries>>]_vars

\* A run went through the handshake, two registrations and two queries,
\* and closed the session.
C20_Witness ==
    /\ buildResult = "ok"
    /\ initializedOk
    /\ opened = 2
    /\ queries >= 2
    /\ closeCalls = 1

\* The declaration the last query was made for: the cursor has moved on to
\* the next declaration with a body, or past the last.
AnsweredDecl ==
    Last({j \in 1..(cursor - 1) : j <= Len(corpus.decls) /\ corpus.decls[j].body})

\* The declarations with a body that share a name.
BodiesNamed(n) ==
    {j \in 1..Len(corpus.decls) : corpus.decls[j].body /\ corpus.decls[j].name = n}

LoadImages(fns, cls) ==
    {AppendEdges(NodesOfRows(fns), rows) : rows \in Orderings(cls)}

\* C16, as stated: the map a LoadGraph returns that ran beside a SaveGraph
\* is the graph the store held when that save began or the graph the store
\* holds since it committed.
C16_ReaderSeesOldOrNew ==
    loadResult = "ok" =>
        loaded \in LoadImages(prevFunctions, prevCalls)
                      \cup LoadImages(functions, calls)

\* ------------------------------------------------------------------------
\* Properties of a run of main (SpecMain)
\* ------------------------------------------------------------------------

\* C17: SaveGraph is called only after BuildCallGraph returned without
\* error, and with the map it returned, which has every declared name as a
\* key and every callee among its keys; the server is started only after
\* SaveGraph and LoadGraph returned without error, with the map LoadGraph
\* returned, read from the rows of the built graph; the committed tables
\* change only in the step in which a SaveGraph of such a run commits, so
\* they are what graph.db held before when BuildCallGraph or SaveGraph
\* failed.
C17_NoPartialGraph ==
    /\ [][mainPc' = "open" =>
            /\ buildResult = "ok"
            /\ DOMAIN mainGraph' = ParseNames(corpus)
            /\ ClosedWorld(mainGraph')]_mainPc
    /\ [](saveResult # "none" =>
            /\ buildResult = "ok"
            /\ buildPc = "done"
            /\ mainPc \in {"save", "serving", "fatal"}
            /\ saveResult \in {"running", "ok"} => saveArg = mainGraph)
    /\ [](mainPc = "serving" =>
            /\ saveResult = "ok"
            /\ loadResult = "ok"
            /\ served = loaded
            /\ DOMAIN served = DOMAIN mainGraph
            /\ functions = RowsOf(mainGraph)
            /\ calls = EdgePairs(mainGraph))
    /\ []((buildResult \notin {"none", "ok"} \/ saveResult \in SaveFailures) =>
            /\ functions = PersistedBefore.functions
            /\ calls = PersistedBefore.calls
            /\ mainPc # "serving"
            /\ served = EmptyGraph)
    /\ [][(functions' # functions \/ calls' # calls) =>
            (buildResult = "ok" /\ savePc = "commit" /\ saveResult' = "ok")]_vars

\* The server was started with a graph of two functions and an edge,
\* reloaded from a graph.db that held another graph before the run.
C17_Witness ==
    /\ mainPc = "serving"
    /\ prevFunctions = PersistedBefore.functions
    /\ prevFunctions # functions
    /\ Cardinality(DOMAIN served) = 2
    /\ \E n \in DOMAIN served : served[n].Callees # <<>>

\* ------------------------------------------------------------------------
\* The lexical extractor
\* ------------------------------------------------------------------------

\* The known names among the targets of the call expressions met: a bare
\* identifier or the trailing member name of a selector.
KnownTargets(targets, known) ==
    {t.name : t \in {u \in targets : /\ u.kind \in {"ident", "selector"}
                                     /\ u.name \in known}}

\* What extractCallGraph holds for a caller: nothing when it has no key.
EdgesOf(g, c) == IF c \in DOMAIN g THEN g[c] ELSE <<>>

\* C18: for every function body the lexical extractor records for the caller
\* exactly the set of declared names that occur as the target of a call
\* expression of the body, as a bare identifier or as the trailing member
\* name of a selector: while the body is inspected calleeSet is that set, and
\* when the inspection ends the caller's list grows by one listing of the
\* set without repeats, so two call sites to one known callee add one edge
\* and a call to an undeclared name adds none, and no other caller's list
\* changes. After assembly every declared name has a node holding the list
\* extractCallGraph collected for it, empty when it collected none; for a
\* corpus that declares A, B and C once each where A calls B twice and the
\* undeclared X and no other body holds a call, the result is A -> [B],
\* B -> [], C -> [].
C18_DistinctKnownTargets ==
    /\ [](lexPc = "inspect" => calleeSet = KnownTargets(visited, funcNames))
    /\ [][(lexPc = "inspect" /\ lexPc' = "walk") =>
            /\ \E s \in Orderings(KnownTargets(visited, funcNames)) :
                 EdgesOf(lexGraph', lexCaller) = EdgesOf(lexGraph, lexCaller) \o s
            /\ \A c \in LexNames \ {lexCaller} :
                 EdgesOf(lexGraph', c) = EdgesOf(lexGraph, c)]_vars
    /\ [](lexPc = "assembled" =>
            /\ DOMAIN lexOut = funcNames
            /\ \A n \in funcNames : lexOut[n].Callees = EdgesOf(lexGraph, n))
    /\ []((/\ lexPc = "assembled"
            /\ funcNames = {"A", "B", "C"}
            /\ walked = funcNames /\ nDecls = 3
            /\ lexCaller = "A"
            /\ nSites = 3 /\ totalSites = 3
            /\ visited = {[kind |-> "ident", name |-> "B"],
                          [kind |-> "ident", name |-> "X"]})
           => [n \in funcNames |-> lexOut[n].Callees]
                = [n \in funcNames |-> IF n = "A" THEN <<"B">> ELSE <<>>])

\* A, B and C are declared once each; A's body, walked last, calls B twice
\* and the undeclared X, the other bodies call nothing, and buildCallGraph
\* has returned A -> [B], B -> [], C -> [].
C18_Witness ==
    /\ lexPc = "assembled"
    /\ funcNames = {"A", "B", "C"}
    /\ walked = funcNames /\ nDecls = 3
    /\ lexCaller = "A"
    /\ nSites = 3 /\ totalSites = 3
    /\ visited = {[kind |-> "ident", name |-> "B"],
                  [kind |-> "ident", name |-> "X"]}
    /\ lexOut["A"].Callees = <<"B">>
    /\ lexOut["B"].Callees = <<>>
    /\ lexOut["C"].Callees = <<>>

\* ------------------------------------------------------------------------
\* Referential integrity of the store (SpecStore)
\* ------------------------------------------------------------------------

\* Both ends of every edge row are function rows.
EndsPresent(rows, edges) ==
    \A e \in edges : e[1] \in DOMAIN rows /\ e[2] \in DOMAIN rows

\* C19: in every committed state of the store, whatever saves succeeded and
\* failed before, each calls row has its caller and its callee among the
\* functions rows, and so has the view of a running transaction whenever an
\* edge insert begins. Within a save no edge row is inserted before every
\* key of the graph has its function row, so a save that returns nil leaves
\* the rows and the pairs of its graph whatever order the maps were ranged
\* in; a graph with a callee that is not a key never reaches the commit: the
\* save can only go on or return an error, and the committed rows stay.
C19_ReferentialIntegrity ==
    /\ [](EndsPresent(functions, calls))
    /\ [](savePc \in {"insertCall", "commit"} =>
            /\ pendingFn = {}
            /\ DOMAIN txFunctions = DOMAIN saveArg
            /\ EndsPresent(txFunctions, txCalls))
    /\ [][(saveResult = "running" /\ txCalls' \ txCalls # {}) =>
            (savePc = "insertCall" /\ pendingFn = {}
               /\ DOMAIN txFunctions = DOMAIN saveArg)]_vars
    /\ [](saveResult = "ok" =>
            /\ ClosedWorld(saveArg)
            /\ functions = RowsOf(saveArg)
            /\ calls = EdgePairs(saveArg))
    /\ []((saveResult = "running" /\ ~ClosedWorld(saveArg)) => savePc # "commit")
    /\ [][(saveResult = "running" /\ ~ClosedWorld(saveArg)) =>
            /\ saveResult' \in {"running"} \cup SaveFailures
            /\ functions' = functions
            /\ calls' = calls]_vars

\* Over a store that holds edges, a save has deleted the rows and inserted
\* every function row of its graph, and every caller it has yet to range
\* over names a callee that is not a key.
C19_Witness ==
    /\ savePc = "insertCall"
    /\ calls # {}
    /\ txFunctions # NoRows
    /\ pendingCallers # {}
    /\ \A c \in pendingCallers :
         ~(Range(saveArg[c].Callees) \subseteq DOMAIN saveArg)

\* ------------------------------------------------------------------------
\* The assembled map (SpecBuild)
\* ------------------------------------------------------------------------

\* C21: in the map BuildCallGraph returns, every declared name that
\* extractGraphLSP's map has no entry for has a node whose callee list is
\* empty and is not nil, and no key is absent from the declaration details.
C21_MissingEntryIsEmptyList ==
    buildResult = "ok" =>
        /\ \A n \in DOMAIN details \ DOMAIN rawGraph :
             /\ n \in DOMAIN out
             /\ out[n].Callees = <<>>
             /\ n \notin outNil
        /\ DOMAIN out \subseteq DOMAIN details

\* A graph was returned for two declared names: extractGraphLSP recorded
\* callees for one and has no entry for the other.
C21_Witness ==
    /\ buildResult = "ok"
    /\ DOMAIN rawGraph # {}
    /\ DOMAIN details \ DOMAIN rawGraph # {}

\* ------------------------------------------------------------------------
\* Properties of the extraction pass, request by request (SpecPass)
\* ------------------------------------------------------------------------

\* A request of the given kind is written in this step.
Sends(kind) == queries' = queries + 1 /\ reqKind' = kind

\* C22: during the extraction pass at most one request awaits its response;
\* the OutgoingCalls request of a function is written only when nothing is
\* outstanding and the last request, PrepareCallHierarchy for the same
\* declaration, was answered with items; a PrepareCallHierarchy request is
\* written only when nothing is outstanding and the function before, if
\* any, got its last response or error: an error, an empty answer or the
\* answer of OutgoingCalls; and each is for the declaration after.
C22_OneOutstandingRequest ==
    /\ [](outstanding \in {0, 1})
    /\ [](outstanding = 1 <=> passPc \in {"prepareWait", "outgoingWait"})
    /\ [][Sends("outgoing") =>
            /\ outstanding = 0
            /\ reqKind = "prepare"
            /\ lastAnswer = "items"
            /\ passCursor' \in {passCursor, passCursor + 1}
            /\ passCursor' = passCursor + 1 => lastAnswer' = "error"]_vars
    /\ [][Sends("prepare") =>
            /\ outstanding = 0
            /\ \/ reqKind = "none" /\ passCursor = 1
               \/ lastAnswer \in {"error", "empty", "calls"}]_vars
    /\ [][passCursor' # passCursor =>
            (passCursor' = passCursor + 1 /\ outstanding' = 0
               /\ lastAnswer' \in {"error", "empty", "calls"})]_vars

\* The OutgoingCalls request of the second function awaits its response,
\* after the first function got both its answers.
C22_Witness ==
    /\ passPc = "outgoingWait"
    /\ outstanding = 1
    /\ passCursor = 2
    /\ queries = 4
    /\ passGraph # NoEdges

\* C26: an OutgoingCalls request is written only for a declaration whose
\* PrepareCallHierarchy answer holds at least one item, it carries the first
\* item of that answer, and it is the only one for the declaration: the
\* loop leaves a declaration that got items with exactly one such request
\* issued. Edges are recorded only from the response to that request, and
\* only for the caller the declaration names.
C26_OnlyFirstEntityUsed ==
    /\ [](outReqs \in {0, 1})
    /\ [](passPc \in {"outgoing", "outgoingWait"} =>
            (passItems # <<>> /\ passRoot = passItems[1]))
    /\ [][Sends("outgoing") =>
            (passItems # <<>> /\ passRoot = passItems[1] /\ outReqs = 0
               /\ UNCHANGED <<passRoot, passItems>>)]_vars
    /\ [][(passCursor' # passCursor /\ passItems' # <<>>) => outReqs' = 1]_vars
    /\ [][passGraph' # passGraph =>
            /\ passPc = "outgoingWait"
            /\ reqKind = "outgoing"
            /\ outReqs = 1
            /\ passRoot = passItems[1]
            /\ \A n \in Names \ {passDecls[passCursor]} :
                 EdgesOf(passGraph', n) = EdgesOf(passGraph, n)]_vars

\* PrepareCallHierarchy answered with two different items, one OutgoingCalls
\* request went out with the first, and its answer added an edge.
C26_Witness ==
    /\ lastAnswer = "calls"
    /\ Len(passItems) = 2
    /\ passItems[1] # passItems[2]
    /\ passRoot = passItems[1]
    /\ outReqs = 1
    /\ passGraph # NoEdges

\* ------------------------------------------------------------------------
\* Properties of LoadGraph on any content (SpecLoad)
\* ------------------------------------------------------------------------

\* The callees the calls rows give a caller.
CalleesInRows(edges, n) == {e[2] : e \in {d \in edges : d[1] = n}}

\* C23: after its first loop LoadGraph holds one node per functions row,
\* with the row's texts and an empty callee list; the map it returns has
\* exactly the names in functions as keys, each with its row's texts and
\* with a callee list that holds the callee of every calls row of that
\* caller once and nothing else, so a calls row whose caller is not a
\* functions row adds nothing and makes no node.
C23_LoadSkipsOrphanEdges ==
    /\ rdPc = "edges" =>
          /\ DOMAIN rdNodes = DOMAIN functions
          /\ \A n \in DOMAIN rdNodes :
               rdNodes[n] = FunctionNode(<<>>, functions[n].Signature,
                                         functions[n].Definition)
    /\ loadResult = "ok" =>
          /\ DOMAIN loaded = DOMAIN functions
          /\ \A n \in DOMAIN loaded :
               /\ loaded[n].Signature = functions[n].Signature
               /\ loaded[n].Definition = functions[n].Definition
               /\ Range(loaded[n].Callees) = CalleesInRows(calls, n)
               /\ NoDup(loaded[n].Callees)

\* LoadGraph returned a map from a store that holds a calls row of a caller
\* without a functions row beside a calls row of a caller with one.
C23_Witness ==
    /\ loadResult = "ok"
    /\ \E e \in calls : e[1] \notin DOMAIN functions
    /\ \E e \in calls : e[1] \in DOMAIN functions
    /\ \E n \in DOMAIN loaded : loaded[n].Callees # <<>>

\* ------------------------------------------------------------------------
\* Repeated callees in a saved graph (SpecStore)
\* ------------------------------------------------------------------------

\* C24: the edge inserts of a caller whose callees are all function rows do
\* not fail, however often a name is repeated in the list, and leave one
\* calls row for each distinct pair; a save that returned nil has persisted
\* the pair of every callee of its graph, and the map LoadGraph then
\* returns holds each of them once in the caller's list.
C24_DuplicateEdgeIgnored ==
    /\ savePc = "insertCall" =>
          \A n \in pendingCallers :
              Range(saveArg[n].Callees) \subseteq DOMAIN txFunctions =>
                  LET r == InsertCalls(txFunctions, txCalls, n, saveArg[n].Callees)
                  IN /\ r.ok
                     /\ r.calls = txCalls \cup
                                     {<<n, c>> : c \in Range(saveArg[n].Callees)}
    /\ saveResult = "ok" =>
          \A n \in DOMAIN saveArg : \A c \in Range(saveArg[n].Callees) :
              /\ <<n, c>> \in calls
              /\ loadResult = "ok" => Count(loaded[n].Callees, c) = 1

\* A graph in which a caller names one callee twice was saved and loaded
\* back: the caller's list holds the name once.
C24_Witness ==
    /\ saveResult = "ok"
    /\ loadResult = "ok"
    /\ \E n \in DOMAIN saveArg :
         /\ Len(saveArg[n].Callees) = 2
         /\ saveArg[n].Callees[1] = saveArg[n].Callees[2]
         /\ Len(loaded[n].Callees) = 1

\* ------------------------------------------------------------------------
\* Declarations that share a name (SpecBuild)
\* ------------------------------------------------------------------------

\* The known names resolved for the declarations of a name.
ResolvedFor(n) == IF n \in DOMAIN resolved THEN resolved[n] ELSE {}

\* C25: in the graph BuildCallGraph returns every declared name has one
\* node; its signature and definition are those of the last declaration of
\* the name in walk order, and its callee list holds exactly the known
\* names that the OutgoingCalls answers of the declarations of that name
\* held, those of an earlier declaration as well as those of a later one.
C25_CollisionsMerge ==
    buildResult = "ok" =>
        \A i \in 1..Len(corpus.decls) :
            LET F == corpus.decls[i].name
            IN /\ F \in DOMAIN out
               /\ (\A j \in (i + 1)..Len(corpus.decls) : corpus.decls[j].name # F) =>
                      /\ out[F].Signature = SignatureText(i)
                      /\ out[F].Definition = DefinitionText(i)
               /\ Range(out[F].Callees) = ResolvedFor(F)

\* A graph was returned for a corpus with two declarations of one name,
\* both with a body: the node has the texts of the second and a callee list
\* longer than one answer, so both declarations added to it.
C25_Witness ==
    /\ buildResult = "ok"
    /\ \E i, j \in 1..Len(corpus.decls) :
         /\ i < j
         /\ corpus.decls[i].name = corpus.decls[j].name
         /\ corpus.decls[i].body /\ corpus.decls[j].body
         /\ out[corpus.decls[j].name].Signature = SignatureText(j)
         /\ Len(out[corpus.decls[j].name].Callees) > MaxOut

\* ------------------------------------------------------------------------
\* A failed registration (SpecBuild)
\* ------------------------------------------------------------------------

\* C27: a step of the registration loop either registers one more file, or
\* OpenDocument failed and BuildCallGraph returns its error, which it does
\* whenever the transport is down; once it has returned that error no file
\* was registered after the failing one, no call-hierarchy query was issued
\* and none is, no graph was returned and none is, and the session was
\* closed; whereas a query that returns an error does not make
\* BuildCallGraph return.
C27_RegistrationFailureAborts ==
    /\ [][(buildPc = "open" /\ <<buildPc, opened>>' # <<buildPc, opened>>) =>
            \/ /\ TransportUp
               /\ opened' = opened + 1
               /\ buildResult' = "none"
            \/ /\ opened' = opened
               /\ buildPc' = "done"
               /\ buildResult' = "open document"]_vars
    /\ [](buildResult = "open document" =>
            /\ buildPc = "done"
            /\ opened < corpus.nFiles
            /\ queries = 0
            /\ out = EmptyGraph /\ rawGraph = NoEdges
            /\ closeCalls = 1)
    /\ [][buildResult = "open document" =>
            UNCHANGED <<buildResult, opened, queries, out>>]_vars
    /\ [][(queries' = queries + 1 /\ lastAnswer' = "error") =>
            (buildPc' # "done" /\ buildResult' = "none")]_vars

\* The second of two files failed to register, in a corpus that has a
\* declaration with a body to query: BuildCallGraph returned the error.
C27_Witness ==
    /\ buildResult = "open document"
    /\ corpus.nFiles = 2
    /\ opened = 1
    /\ \E i \in 1..Len(corpus.decls) : corpus.decls[i].body
    /\ queries = 0

====
